---------------------------- MODULE Spec2Model ----------------------------
(***************************************************************************)
(* A model of the WebSocket connection engine of ws-rs                     *)
(* (src/src/connection.rs) and of its frame codec (src/src/frame.rs).      *)
(*                                                                         *)
(* Bytes are naturals 0..255 and buffers are sequences of bytes.  A        *)
(* Cursor<Vec<u8>> is a record [data, pos, cap]: the vector, the cursor's  *)
(* position (0-based, as in the source) and the vector's capacity.         *)
(* Every operation of Connection is an operator from a "machine" record    *)
(* [c, s, h, r] to a machine record, so that a method that calls other     *)
(* methods is the composition of their operators:                          *)
(*    c  the Connection's fields,                                          *)
(*    s  its socket (what the peer has sent, what has been written),       *)
(*    h  what an observer of the handler and of the socket has seen,       *)
(*    r  the Result the method returns.                                    *)
(***************************************************************************)
EXTENDS Integers, Sequences, FiniteSets, TLC

VARIABLES
    conn,    \* peer id -> the Connection struct (connection.rs 75-94)
    sock,    \* peer id -> the peer's Stream: bytes to read, bytes written
    hist,    \* peer id -> the handler callbacks invoked, the frames enqueued
    ret,     \* peer id -> the Result of the last operation
    env      \* what the environment may still do: calls, partial reads
             \* and writes, and the masks it lets generate_mask draw

vars == <<conn, sock, hist, ret, env>>

---------------------------------------------------------------------------
(* Bounds of the model.                                                    *)

\* Longest payload a caller hands to send_message / send_ping / send_pong.
MaxPayload == 3
\* Largest settings.fragment_size tried.
MaxFragSize == 2
\* Number of send_*/shutdown/error/reset calls made on one connection.
MaxCalls == 1
\* Number of reads that leave arrived bytes unread, and of writes of which
\* the socket takes only a part, in one run.
MaxSplits == 1
\* Number of send_message / send_ping calls made in SpecSend and SpecFrag.
MaxSends == 2

---------------------------------------------------------------------------
(* Bytes.                                                                  *)

Byte == 0..255

RECURSIVE Xor(_, _)
\* a ^ b on bytes (frame.rs 16: *byte ^= key)
Xor(a, b) ==
    IF a = 0 THEN b
    ELSE IF b = 0 THEN a
    ELSE ((a + b) % 2) + 2 * Xor(a \div 2, b \div 2)

\* first & bit != 0, for bit a power of two
BitSet(b, bit) == (b \div bit) % 2 = 1

\* The big-endian value of a byte sequence (u16::from_be / u64::from_be of
\* the transmuted bytes, frame.rs 292-296, 305-306; connection.rs 595-597).
RECURSIVE FromBE(_)
FromBE(bs) ==
    IF bs = <<>> THEN 0
    ELSE FromBE(SubSeq(bs, 1, Len(bs) - 1)) * 256 + bs[Len(bs)]

\* The n big-endian bytes of v (to_be + transmute, frame.rs 228-231, 388-398).
RECURSIVE ToBE(_, _)
ToBE(v, n) ==
    IF n = 0 THEN <<>>
    ELSE Append(ToBE(v \div 256, n - 1), v % 256)

\* data[from..] of a Rust slice, from 0-based
Tail0(data, from) == SubSeq(data, from + 1, Len(data))
\* data[..to] of a Rust slice, to exclusive and 0-based
Head0(data, to) == SubSeq(data, 1, to)

Min(a, b) == IF a < b THEN a ELSE b
Max(a, b) == IF a > b THEN a ELSE b

\* std::str::from_utf8(bs).is_ok(): the well-formed UTF-8 byte sequences.
RECURSIVE Utf8Valid(_)
Utf8Valid(bs) ==
    IF bs = <<>> THEN TRUE
    ELSE LET b == bs[1]
             n == Len(bs)
             Cont(i) == i <= n /\ bs[i] >= 128 /\ bs[i] <= 191
         IN  IF b < 128 THEN Utf8Valid(Tail0(bs, 1))
             ELSE IF b >= 194 /\ b <= 223
                  THEN Cont(2) /\ Utf8Valid(Tail0(bs, 2))
             ELSE IF b >= 224 /\ b <= 239
                  THEN /\ Cont(2) /\ Cont(3)
                       /\ (b = 224 => bs[2] >= 160)
                       /\ (b = 237 => bs[2] <= 159)
                       /\ Utf8Valid(Tail0(bs, 3))
             ELSE IF b >= 240 /\ b <= 244
                  THEN /\ Cont(2) /\ Cont(3) /\ Cont(4)
                       /\ (b = 240 => bs[2] >= 144)
                       /\ (b = 244 => bs[2] <= 143)
                       /\ Utf8Valid(Tail0(bs, 4))
             ELSE FALSE

---------------------------------------------------------------------------
(* OpCode and CloseCode (protocol.rs is not among the sources: the two     *)
(* wire mappings are those of the specification, section 4.1).             *)

OpCodes == {"Continue", "Text", "Binary", "Close", "Ping", "Pong"}

\* OpCode::from(u8)
OpCode_from(nibble) ==
    CASE nibble = 0  -> "Continue"
      [] nibble = 1  -> "Text"
      [] nibble = 2  -> "Binary"
      [] nibble = 8  -> "Close"
      [] nibble = 9  -> "Ping"
      [] nibble = 10 -> "Pong"
      [] OTHER       -> "Bad"

\* u8::from(OpCode)
OpCode_into(op) ==
    CASE op = "Continue" -> 0
      [] op = "Text"     -> 1
      [] op = "Binary"   -> 2
      [] op = "Close"    -> 8
      [] op = "Ping"     -> 9
      [] op = "Pong"     -> 10
      [] OTHER           -> 3

\* A CloseCode is a record [name, code]; Other(code) keeps its number.
NamedCodes ==
    [n \in {1000, 1001, 1002, 1003, 1005, 1006, 1007, 1008, 1009, 1010,
            1011, 1012, 1013, 1015} |->
        CASE n = 1000 -> "Normal"
          [] n = 1001 -> "Away"
          [] n = 1002 -> "Protocol"
          [] n = 1003 -> "Unsupported"
          [] n = 1005 -> "Status"
          [] n = 1006 -> "Abnormal"
          [] n = 1007 -> "Invalid"
          [] n = 1008 -> "Policy"
          [] n = 1009 -> "Size"
          [] n = 1010 -> "Extension"
          [] n = 1011 -> "Error"
          [] n = 1012 -> "Restart"
          [] n = 1013 -> "Again"
          [] n = 1015 -> "Tls"]

\* CloseCode::from(u16)
CloseCode_from(code) ==
    IF code \in DOMAIN NamedCodes
    THEN [name |-> NamedCodes[code], code |-> code]
    ELSE [name |-> "Other", code |-> code]

\* The named close codes the engine itself sends.
CloseCode_Normal   == CloseCode_from(1000)
CloseCode_Away     == CloseCode_from(1001)
CloseCode_Protocol == CloseCode_from(1002)
CloseCode_Status   == CloseCode_from(1005)
CloseCode_Invalid  == CloseCode_from(1007)
CloseCode_Size     == CloseCode_from(1009)
CloseCode_Error    == CloseCode_from(1011)
\* CloseCode::Empty: a Close frame without a payload (frame.rs 233-234).
CloseCode_Empty    == [name |-> "Empty", code |-> 0]

\* u16::from(CloseCode)
CloseCode_into(cc) == cc.code

---------------------------------------------------------------------------
(* Frame (frame.rs).  mask is <<>> for None and the 4 key bytes for Some.  *)

\* Frame::default (frame.rs 425-437)
Frame_default ==
    [finished |-> TRUE, rsv1 |-> FALSE, rsv2 |-> FALSE, rsv3 |-> FALSE,
     opcode |-> "Close", mask |-> <<>>, payload |-> <<>>]

\* apply_mask (frame.rs 13-18): byte i is XORed with key[i mod 4]
apply_mask(buf, mask) ==
    [i \in 1..Len(buf) |-> Xor(buf[i], mask[((i - 1) % 4) + 1])]

\* Frame::is_masked (frame.rs 101-103)
is_masked(f) == f.mask # <<>>

\* Frame::len (frame.rs 44-60)
Frame_len(f) ==
    LET payload_len == Len(f.payload)
        ext == IF payload_len > 125
               THEN (IF payload_len <= 65535 THEN 2 ELSE 8)
               ELSE 0
    IN  2 + ext + (IF is_masked(f) THEN 4 ELSE 0) + payload_len

\* Frame::set_mask (frame.rs 167-170) with the key generate_mask drew
set_mask(f, key) == [f EXCEPT !.mask = key]

\* Frame::has_rsv3 (frame.rs 82-84)
has_rsv3(f) == f.rsv3

\* Frame::set_rsv3 (frame.rs 140-143): self.rsv1 = has_rsv3
set_rsv3(f, has) == [f EXCEPT !.rsv1 = has]

\* remove_mask dropping the key without unmasking the payload.
remove_mask_KeyOnly(f) == [f EXCEPT !.mask = <<>>]

\* Frame::remove_mask (frame.rs 176-182)
remove_mask(f) ==
    [f EXCEPT !.payload = IF is_masked(f) THEN apply_mask(f.payload, f.mask)
                          ELSE f.payload,
              !.mask = <<>>]

\* Frame::message (frame.rs 191-203)
Frame_message(data, code, finished) ==
    [Frame_default EXCEPT !.finished = finished, !.opcode = code,
                          !.payload = data]

\* Frame::pong without the data.
Frame_pong_Empty(data) == [Frame_default EXCEPT !.opcode = "Pong"]

\* Frame::pong (frame.rs 207-213)
Frame_pong(data) == [Frame_default EXCEPT !.opcode = "Pong", !.payload = data]

\* Frame::ping (frame.rs 217-223)
Frame_ping(data) == [Frame_default EXCEPT !.opcode = "Ping", !.payload = data]

\* Frame::close writing a code for CloseCode::Empty too.
Frame_close_WithCode(code, reason) ==
    [Frame_default EXCEPT
        !.payload = ToBE(CloseCode_into(code), 2) \o reason]

\* Frame::close (frame.rs 227-246): the code big-endian, then the reason
Frame_close(code, reason) ==
    [Frame_default EXCEPT
        !.payload = IF code.name = "Empty" THEN <<>>
                    ELSE ToBE(CloseCode_into(code), 2) \o reason]

\* Frame::format keeping the 7-bit length for a payload of 126 bytes.
Frame_format_Short126(f) ==
    LET one == (IF f.finished THEN 128 ELSE 0) + (IF f.rsv1 THEN 64 ELSE 0)
               + (IF f.rsv2 THEN 32 ELSE 0) + (IF f.rsv3 THEN 16 ELSE 0)
               + OpCode_into(f.opcode)
        n == Len(f.payload)
        mbit == IF is_masked(f) THEN 128 ELSE 0
        headers == IF n <= 126 THEN <<one, mbit + n>>
                   ELSE IF n <= 65535 THEN <<one, mbit + 126>> \o ToBE(n, 2)
                   ELSE <<one, mbit + 127>> \o ToBE(n, 8)
    IN  IF is_masked(f)
        THEN headers \o f.mask \o apply_mask(f.payload, f.mask)
        ELSE headers \o f.payload

\* Frame::format (frame.rs 357-422): the bytes written to w
Frame_format(f) ==
    LET one == (IF f.finished THEN 128 ELSE 0) + (IF f.rsv1 THEN 64 ELSE 0)
               + (IF f.rsv2 THEN 32 ELSE 0) + (IF f.rsv3 THEN 16 ELSE 0)
               + OpCode_into(f.opcode)
        n == Len(f.payload)
        mbit == IF is_masked(f) THEN 128 ELSE 0
        headers == IF n < 126 THEN <<one, mbit + n>>
                   ELSE IF n <= 65535 THEN <<one, mbit + 126>> \o ToBE(n, 2)
                   ELSE <<one, mbit + 127>> \o ToBE(n, 8)
    IN  IF is_masked(f)
        THEN headers \o f.mask \o apply_mask(f.payload, f.mask)
        ELSE headers \o f.payload

\* Ok(None) with the cursor left behind the two header bytes.
NoFrame_HeaderRead(pos) ==
    [kind |-> "None", frame |-> Frame_default, pos |-> pos + 2]

\* The three results of Frame::parse.
NoFrame(pos) == [kind |-> "None", frame |-> Frame_default, pos |-> pos]
ParseErr(pos) == [kind |-> "Err", frame |-> Frame_default, pos |-> pos]

\* The test of frame.rs 311-317: control frames must have length <= 125.
ControlTooLong_CloseOnly(opcode, length) ==
    opcode = "Close" /\ length > 125
ControlTooLong(opcode, length) ==
    opcode \in {"Close", "Ping", "Pong"} /\ length > 125

\* Frame::parse stopped by a panic or by the allocator: the call does not
\* return (an addition that overflows in a build with overflow checks,
\* frame.rs 332; Vec::with_capacity of more than the address space, 337).
ParsePanic(pos) == [kind |-> "Panic", frame |-> Frame_default, pos |-> pos]

\* The bytes of a length whose value is 2^24 or more.
Huge(bs) == \E i \in 1..(Len(bs) - 3) : bs[i] # 0

\* The value of the big-endian bytes bs where it is below 2^24, and 2^24
\* for every larger one: no buffer here holds as many bytes, so that the
\* comparisons of frame.rs 313 and 332 are those of the value itself.
Sat(bs) == IF Huge(bs) THEN 16777216 ELSE FromBE(bs)

\* length as usize (frame.rs 332, 337) where usize has `bits` bits: the
\* low bits/8 bytes of the u64.
as_usize(bits, bs) ==
    IF Len(bs) * 8 > bits THEN SubSeq(bs, Len(bs) - bits \div 8 + 1, Len(bs))
    ELSE bs

\* length as usize + header_length (frame.rs 332) is 2^bits or more.
Overflows(bits, bs, header_length) ==
    LET us == as_usize(bits, bs)
    IN  /\ Len(us) * 8 = bits
        /\ \A i \in 1..(Len(us) - 1) : us[i] = 255
        /\ us[Len(us)] + header_length >= 256

\* Frame::parse (frame.rs 249-354) on a cursor over data at position
\* initial, built for a target whose usize has `bits` bits: Ok(None) with
\* the position restored, Err(Protocol), Ok(Some(frame)) with the position
\* after the frame, or no return.  When the sum of frame.rs 332 overflows,
\* a build with overflow checks panics there; one without them goes on
\* with the wrapped sum, which is less than header_length and so not more
\* than size, to Vec::with_capacity(length as usize) (337), which cannot
\* be had: neither returns.
Frame_parse_usize(bits, data, initial) ==
    LET size == Len(data) - initial
        \* cursor.read(&mut [0u8; k]) at 0-based position p: what it yields
        Avail(p, k) == Min(k, Len(data) - p)
        Bytes(p, k) == SubSeq(data, p + 1, p + k)
    IN  IF Avail(initial, 2) # 2 THEN NoFrame(initial)
        ELSE
        LET first == data[initial + 1]
            second == data[initial + 2]
            finished == BitSet(first, 128)
            rsv1 == BitSet(first, 64)
            rsv2 == BitSet(first, 32)
            rsv3 == BitSet(first, 16)
            opcode == OpCode_from(first % 16)
            masked == BitSet(second, 128)
            len7 == second % 128
            extlen == IF len7 = 126 THEN 2 ELSE IF len7 = 127 THEN 8 ELSE 0
            p1 == initial + 2
        IN  IF opcode = "Bad" THEN ParseErr(p1)
            ELSE IF Avail(p1, extlen) # extlen
                 THEN NoFrame(initial)
            ELSE
            LET length_bytes == IF extlen = 0 THEN <<len7>>
                                ELSE Bytes(p1, extlen)
                length == Sat(length_bytes)
                p2 == p1 + extlen
            IN  IF ControlTooLong(opcode, length)
                THEN ParseErr(p2)
                ELSE IF masked /\ Avail(p2, 4) # 4 THEN NoFrame(initial)
                ELSE
                LET mask == IF masked THEN Bytes(p2, 4) ELSE <<>>
                    p3 == IF masked THEN p2 + 4 ELSE p2
                    header_length == p3 - initial
                    ulength == Sat(as_usize(bits, length_bytes))
                IN  IF Overflows(bits, length_bytes, header_length)
                    THEN ParsePanic(p3)
                    ELSE IF size < ulength + header_length
                    THEN NoFrame(initial)
                    ELSE [kind |-> "Frame",
                          frame |-> [finished |-> finished, rsv1 |-> rsv1,
                                     rsv2 |-> rsv2, rsv3 |-> rsv3,
                                     opcode |-> opcode, mask |-> mask,
                                     payload |-> Bytes(p3, ulength)],
                          pos |-> p3 + ulength]

\* Frame::parse on the 64-bit targets.  The frames of a connection here
\* are shorter than 2^24 bytes, for which the width of usize is the same.
Frame_parse(data, initial) == Frame_parse_usize(64, data, initial)

---------------------------------------------------------------------------
(* Results, buffers and the handler.                                       *)

\* Result<()>: Ok(()) or Err(Error { kind, details }).
Ok == [kind |-> "Ok", msg |-> <<>>]
Err(kind, msg) == [kind |-> kind, msg |-> msg]
IsOk(m) == m.r.kind = "Ok"

\* Error kinds (result.rs is not among the sources; the kinds are those
\* connection.rs matches on, 252-364).
Kinds == {"Internal", "Capacity", "Protocol", "Encoding", "Parse", "Io",
          "Custom"}

\* The text of an error, format!("{}", err): the model keeps one short
\* text for every error.
ErrText == <<33>>

\* EventSet values
Readable == "readable"
Writable == "writable"
Hup == "hup"

\* Cursor::new(Vec::with_capacity(cap))
NewCursor(cap) == [data |-> <<>>, pos |-> 0, cap |-> cap]

\* Vec::reserve(additional) on a vector of length len and capacity cap:
\* the new capacity (amortized growth of the standard library).
Reserve(len, cap, additional) ==
    IF cap - len >= additional THEN cap ELSE Max(2 * cap, len + additional)

\* Appending bytes to a Vec<u8> (Write for Cursor<Vec<u8>> at the end,
\* Vec::extend): the data grows and the capacity follows.
VecAppend(cur, bytes) ==
    [cur EXCEPT !.data = cur.data \o bytes,
                !.cap = Reserve(Len(cur.data), cur.cap, Len(bytes))]

\* One handler callback as the observer records it.
Call(cb, op, code, data) == [cb |-> cb, op |-> op, code |-> code, data |-> data]

\* m with the callback appended to the handler's log
Log(m, call) == [m EXCEPT !.h.calls = Append(m.h.calls, call)]

\* m returning r
Return(m, r) == [m EXCEPT !.r = r]

\* Connection::is_client / is_server (connection.rs 227-239)
is_client(m) == m.c.endpoint = "Client"
is_server(m) == m.c.endpoint = "Server"

\* State::is_connecting / is_closing (connection.rs 50-72)
is_connecting(m) == m.c.state = "Connecting"
is_closing(m) == m.c.state = "Closing"

\* self.state = Open / Closing: the Connecting state's two cursors are
\* dropped with it (connection.rs 397, 467, 817).
SetState(m, st) ==
    [m EXCEPT !.c.state = st,
              !.c.req = [data |-> <<>>, pos |-> 0],
              !.c.res = [data |-> <<>>, pos |-> 0],
              !.h.path = IF m.c.state = st THEN @ ELSE Append(@, st),
              !.h.hs = IF m.c.state = "Connecting"
                       THEN [req |-> m.c.req.data, res |-> m.c.res.data]
                       ELSE @]

---------------------------------------------------------------------------
(* Outbound framing (connection.rs 761-864).                               *)

\* Connection::check_events (connection.rs 821-828)
check_events(m) ==
    IF is_connecting(m) THEN m
    ELSE [m EXCEPT !.c.events =
            (m.c.events \cup {Readable}) \cup
            (IF m.c.out_buffer.pos < Len(m.c.out_buffer.data)
             THEN {Writable} ELSE {})]

\* check_buffer_out keeping the bytes already written.
check_buffer_out_KeepAll(m, frame) ==
    IF m.c.out_buffer.cap <= Len(m.c.out_buffer.data) + Frame_len(frame)
    THEN [m EXCEPT !.c.out_buffer.pos = 0, !.r = Ok]
    ELSE Return(m, Ok)

\* Connection::check_buffer_out (connection.rs 848-864)
check_buffer_out(m, frame) ==
    LET ob == m.c.out_buffer
        new == Tail0(ob.data, ob.pos)
    IN  IF ob.cap <= Len(ob.data) + Frame_len(frame)
        THEN IF Len(new) = ob.cap
             THEN IF m.c.settings.out_buffer_grow
                  THEN [m EXCEPT !.c.out_buffer =
                          [data |-> new, pos |-> 0,
                           cap |-> Reserve(Len(new), ob.cap,
                                           m.c.settings.out_buffer_capacity)],
                        !.r = Ok]
                  ELSE Return(m, Err("Capacity", ErrText))
             ELSE [m EXCEPT !.c.out_buffer =
                     [data |-> new, pos |-> 0, cap |-> ob.cap],
                   !.r = Ok]
        ELSE Return(m, Ok)

\* The end of buffer_frame (connection.rs 840-843): unless check_buffer_out
\* failed (m2), the formatted frame goes to the end of out_buffer and the
\* position stays.
format_at_end(m2, frame, bytes) ==
    IF ~IsOk(m2) THEN m2
    ELSE [m2 EXCEPT !.c.out_buffer = VecAppend(m2.c.out_buffer, bytes),
                    !.h.enq = m2.h.enq \o bytes,
                    !.h.frames = Append(m2.h.frames, frame),
                    !.r = Ok]

\* Connection::buffer_frame (connection.rs 830-846); key is the mask
\* generate_mask draws when the endpoint is a client.  The handler's
\* on_send_frame passes the frame through.
buffer_frame(m, frame, key) ==
    format_at_end(check_buffer_out(m, frame), frame,
                  Frame_format(IF is_client(m) THEN set_mask(frame, key)
                               ELSE frame))

\* try!(...); Ok(self.check_events()): the end of the send_* methods.
then_check_events(m1) == IF IsOk(m1) THEN check_events(m1) ELSE m1

\* The mask drawn for the i-th frame of one call.
Draw(rng, i) == rng[((i - 1) % Len(rng)) + 1]

\* data.chunks(size): the i-th chunk, i from 1
Chunk(data, size, i) ==
    SubSeq(data, (i - 1) * size + 1, Min(i * size, Len(data)))
\* NumChunks without the last, shorter chunk.
NumChunks_Whole(data, size) == Len(data) \div size

\* the number of chunks of data.chunks(size)
NumChunks(data, size) == (Len(data) + size - 1) \div size

\* The loop of send_message (connection.rs 774-782) from chunk i on.
RECURSIVE send_chunks(_, _, _, _)
send_chunks(m, data, rng, i) ==
    LET size == m.c.settings.fragment_size
        n == NumChunks(data, size)
    IN  IF i > n \/ ~IsOk(m) THEN m
        ELSE send_chunks(
                buffer_frame(m, Frame_message(Chunk(data, size, i),
                                              "Continue", i = n),
                             Draw(rng, i)),
                data, rng, i + 1)

\* Connection::send_message (connection.rs 761-790); msg is [op, data].
\* The first frame is the whole message, or its first chunk followed by
\* the loop over the other chunks.
send_message(m, msg, rng) ==
    LET size == m.c.settings.fragment_size
        chunked == Len(msg.data) > size
        first == IF chunked
                 THEN Frame_message(Chunk(msg.data, size, 1), msg.op, FALSE)
                 ELSE Frame_message(msg.data, msg.op, TRUE)
    IN  then_check_events(
            send_chunks(buffer_frame(m, first, Draw(rng, 1)), msg.data, rng,
                        IF chunked THEN 2
                        ELSE NumChunks(msg.data, size) + 1))

\* Connection::send_ping (connection.rs 793-797)
send_ping(m, data, key) ==
    then_check_events(buffer_frame(m, Frame_ping(data), key))

\* send_pong without the test of the state.
send_pong_AnyState(m, data, key) ==
    then_check_events(buffer_frame(m, Frame_pong(data), key))

\* Connection::send_pong (connection.rs 800-807)
send_pong(m, data, key) ==
    IF is_closing(m) THEN Return(m, Ok)
    ELSE then_check_events(buffer_frame(m, Frame_pong(data), key))

\* The end of send_close (connection.rs 817-818)
now_closing(m1) ==
    IF IsOk(m1) THEN check_events(SetState(m1, "Closing")) ELSE m1

\* Connection::send_close (connection.rs 810-819)
send_close(m, code, reason, key) ==
    now_closing(buffer_frame(m, Frame_close(code, reason), key))

\* The handler is told of an error and the connection is dropped
\* (self.handler.on_error(err); self.events = EventSet::none()).
Terminate(m, kind) ==
    [Log(m, Call("on_error", kind, 0, <<>>)) EXCEPT !.c.events = {}, !.r = Ok]

\* if let Err(err) = self.send_close(..) { on_error(err); events = none }
\* (connection.rs 243-246, 308-311)
or_terminate(m1) == IF IsOk(m1) THEN m1 ELSE Terminate(m1, m1.r.kind)

\* "Shutting down."
ShuttingDown ==
    <<83, 104, 117, 116, 116, 105, 110, 103, 32, 100, 111, 119, 110, 46>>

\* Connection::shutdown (connection.rs 241-247)
shutdown(m, key) ==
    or_terminate(send_close(Log(m, Call("on_shutdown", "", 0, <<>>)),
                            CloseCode_Away, ShuttingDown, key))

---------------------------------------------------------------------------
(* Frame reception (connection.rs 538-721, 866-908).                       *)

\* "Unable to read close code. Sending empty close frame."
UnableToReadCloseCode ==
    <<85, 110, 97, 98, 108, 101, 32, 116, 111, 32, 114, 101, 97, 100, 32,
      99, 108, 111, 115, 101, 32, 99, 111, 100, 101, 46, 32, 83, 101, 110,
      100, 105, 110, 103, 32, 101, 109, 112, 116, 121, 32, 99, 108, 111,
      115, 101, 32, 102, 114, 97, 109, 101, 46>>

\* InvalidOther without the three codes added for the Autobahn suite.
InvalidOther_Rfc(code) ==
    \/ code < 1000
    \/ code >= 5000
    \/ code = 1004
    \/ code = 1014
    \/ code = 1016

\* The close codes an endpoint may not send, among the codes without a
\* name (connection.rs 598-611).
InvalidOther(code) ==
    \/ code < 1000
    \/ code >= 5000
    \/ code = 1004
    \/ code = 1014
    \/ code = 1016
    \/ code = 1100
    \/ code = 2000
    \/ code = 2999

\* The named codes that may not arrive on the wire (connection.rs 622-631).
NeverOnWire == {"Abnormal", "Status", "Restart", "Again", "Tls"}

\* handler.on_frame(frame): the frame is recorded and passed through.
on_frame(m, frame) == [m EXCEPT !.h.recv = Append(m.h.recv, frame)]

\* The concatenation of the payloads of a sequence of frames.
RECURSIVE Payloads(_)
Payloads(frames) ==
    IF frames = <<>> THEN <<>>
    ELSE frames[1].payload \o Payloads(Tail(frames))

\* answer_close echoing the code whatever the reason.
answer_close_SameCode(m2, named, has_reason, key) ==
    IF named.name \in NeverOnWire THEN Return(m2, Err("Protocol", ErrText))
    ELSE send_close(m2, named, <<>>, key)

\* The end of the Close arm: the handler has had on_close (m2); the codes
\* that may not arrive are refused, the others are answered
\* (connection.rs 622-638).
answer_close(m2, named, has_reason, key) ==
    IF named.name \in NeverOnWire THEN Return(m2, Err("Protocol", ErrText))
    ELSE send_close(m2, IF has_reason THEN named ELSE CloseCode_Invalid,
                    <<>>, key)

\* A Close frame with a code (connection.rs 593-638)
close_with_code(m1, named, reason, key) ==
    IF named.name = "Other" /\ InvalidOther(named.code)
    THEN Return(m1, Err("Protocol", ErrText))
    ELSE answer_close(Log(m1, Call("on_close", named.name, named.code,
                                   IF Utf8Valid(reason) THEN reason
                                   ELSE <<>>)),
                      named, Utf8Valid(reason), key)

\* on_close_frame without the test of the state.
on_close_frame_AnyState(m, frame, key) ==
    close_with_code(on_frame(m, frame),
                    CloseCode_from(FromBE(Head0(frame.payload, 2))),
                    Tail0(frame.payload, 2), key)

\* A final Close frame in read_frames (connection.rs 586-647).
on_close_frame(m, frame, key) ==
    IF is_closing(m) THEN Return(m, Ok)
    ELSE IF Len(frame.payload) >= 2
    THEN close_with_code(on_frame(m, frame),
                         CloseCode_from(FromBE(Head0(frame.payload, 2))),
                         Tail0(frame.payload, 2), key)
    ELSE send_close(Log(on_frame(m, frame),
                        Call("on_close", "Status", 1005,
                             UnableToReadCloseCode)),
                    CloseCode_Empty, <<>>, key)

\* on_data_frame accepting a whole message in the middle of a fragmented
\* one.
on_data_frame_Interleaved(m, frame) ==
    LET m1 == on_frame(m, frame)
    IN  IF frame.opcode = "Text" /\ ~Utf8Valid(frame.payload)
        THEN Return(m1, Err("Encoding", ErrText))
        ELSE Return(Log(m1, Call("on_message", frame.opcode, 0,
                                 frame.payload)), Ok)

\* A final Text or Binary frame in read_frames (connection.rs 559-584).
on_data_frame(m, frame) ==
    LET m1 == on_frame(m, frame)
    IN  IF m.c.fragments # <<>> THEN Return(m1, Err("Protocol", ErrText))
        ELSE IF frame.opcode = "Text" /\ ~Utf8Valid(frame.payload)
        THEN Return(m1, Err("Encoding", ErrText))
        ELSE Return(Log(m1, Call("on_message", frame.opcode, 0,
                                 frame.payload)), Ok)

\* on_last_fragment delivering the last fragment alone.
on_last_fragment_LastOnly(m, last) ==
    IF m.c.fragments = <<>>
    THEN Return(on_frame(m, last), Err("Protocol", ErrText))
    ELSE [Log(on_frame(m, last),
              Call("on_message", Head(m.c.fragments).opcode, 0, last.payload))
            EXCEPT !.c.fragments = <<>>, !.r = Ok]

\* A final Continue frame in read_frames (connection.rs 661-703).
on_last_fragment(m, last) ==
    LET m1 == on_frame(m, last)
        frags == m.c.fragments
    IN  IF frags = <<>> THEN Return(m1, Err("Protocol", ErrText))
        ELSE
        LET first == Head(frags)
            data == Payloads(frags) \o last.payload
        IN  IF first.opcode \notin {"Text", "Binary"}
            THEN [m1 EXCEPT !.c.fragments = Tail(frags),
                            !.r = Err("Protocol", ErrText)]
            ELSE IF first.opcode = "Text" /\ ~Utf8Valid(data)
            THEN [m1 EXCEPT !.c.fragments = <<>>,
                            !.r = Err("Encoding", ErrText)]
            ELSE [Log(m1, Call("on_message", first.opcode, 0, data))
                    EXCEPT !.c.fragments = <<>>, !.r = Ok]

\* One frame of the loop of read_frames (connection.rs 541-718).
dispatch(m, parsed, key) ==
    LET strict == m.c.settings.masking_strict
        frame == remove_mask(parsed)
    IN  IF strict /\ is_masked(parsed) /\ is_client(m)
        THEN Return(m, Err("Protocol", ErrText))
        ELSE IF strict /\ ~is_masked(parsed) /\ is_server(m)
        THEN Return(m, Err("Protocol", ErrText))
        ELSE IF frame.finished
        THEN CASE frame.opcode \in {"Text", "Binary"} ->
                    on_data_frame(m, frame)
               [] frame.opcode = "Close" -> on_close_frame(m, frame, key)
               [] frame.opcode = "Ping" ->
                    send_pong(on_frame(m, frame), frame.payload, key)
               [] frame.opcode = "Pong" -> Return(on_frame(m, frame), Ok)
               [] frame.opcode = "Continue" -> on_last_fragment(m, frame)
               [] OTHER -> Return(m, Err("Protocol", ErrText))
        ELSE IF frame.opcode \in {"Text", "Binary", "Continue"}
        THEN [on_frame(m, frame) EXCEPT
                !.c.fragments = Append(m.c.fragments, frame), !.r = Ok]
        ELSE Return(m, Err("Protocol", ErrText))

\* Connection::read_frames (connection.rs 538-721); the i-th frame that
\* needs a mask for its reply draws Draw(rng, i).
RECURSIVE read_frames_from(_, _, _)

\* The loop goes on unless the frame made an error (m2).
next_frame(m2, rng, i) ==
    IF IsOk(m2) THEN read_frames_from(m2, rng, i + 1) ELSE m2

\* One turn of the loop, p being what Frame::parse returned: the cursor
\* has moved to p.pos.
parsed_frame(m, p, rng, i) ==
    CASE p.kind = "None" -> Return(m, Ok)
      [] p.kind = "Panic" -> Return(m, Err("Panic", ErrText))
      [] p.kind = "Err" ->
            [m EXCEPT !.c.in_buffer.pos = p.pos,
                      !.r = Err("Protocol", ErrText)]
      [] OTHER ->
            next_frame(
                dispatch([m EXCEPT !.c.in_buffer.pos = p.pos,
                                   !.h.parsed = Append(@, [f |-> p.frame,
                                                           st |-> m.c.state])],
                         p.frame, Draw(rng, i)),
                rng, i)

read_frames_from(m, rng, i) ==
    parsed_frame(m, Frame_parse(m.c.in_buffer.data, m.c.in_buffer.pos),
                 rng, i)

read_frames(m, rng) == read_frames_from(m, rng, 1)

\* socket.try_read_buf(vec) when n bytes have arrived: the bytes go to the
\* vector's spare capacity, which is first enlarged when there is none
\* (MutBuf for Vec<u8>).  The result is the machine and the count read.
try_read_buf(m, n) ==
    LET ib == m.c.in_buffer
        cap == IF ib.cap = Len(ib.data) THEN Reserve(Len(ib.data), ib.cap, 64)
               ELSE ib.cap
        k == Min(n, cap - Len(ib.data))
    IN  [m |-> [m EXCEPT !.c.in_buffer =
                    [ib EXCEPT !.data = ib.data \o Head0(m.s.rx, k),
                               !.cap = cap],
                  !.s.rx = Tail0(m.s.rx, k)],
         k |-> k]

\* The loop of buffer_in (connection.rs 874-904) when rem more bytes have
\* arrived; some is whether buffer_in returns Some(len).
RECURSIVE buffer_in_loop(_, _)
buffer_in_loop(m, rem) ==
    LET ib == m.c.in_buffer
        new == Tail0(ib.data, ib.pos)
        full == Len(ib.data) = ib.cap
        m1 == IF full
              THEN [m EXCEPT !.c.in_buffer =
                       [data |-> new, pos |-> 0, cap |-> ib.cap]]
              ELSE m
        rd == try_read_buf(m1, rem)
    IN  IF full /\ Len(new) = ib.cap
        THEN IF m.c.settings.in_buffer_grow
             THEN [m |-> [m EXCEPT !.c.in_buffer =
                            [data |-> new, pos |-> 0,
                             cap |-> Reserve(Len(new), ib.cap,
                                        m.c.settings.in_buffer_capacity)],
                          !.r = Ok],
                   some |-> TRUE]
             ELSE [m |-> Return(m, Err("Capacity", ErrText)), some |-> FALSE]
        ELSE IF rem = 0 THEN [m |-> Return(m1, Ok), some |-> TRUE]
        ELSE buffer_in_loop(rd.m, rem - rd.k)

\* Connection::buffer_in (connection.rs 866-908) when n bytes have arrived
\* (n = 0: the socket would block).
buffer_in(m, n) ==
    LET rd == try_read_buf(m, n)
    IN  IF n = 0 THEN [m |-> Return(m, Ok), some |-> FALSE]
        ELSE buffer_in_loop(rd.m, n - rd.k)

---------------------------------------------------------------------------
(* The handshake messages (handshake.rs is not among the sources: a        *)
(* message is modelled by its significant fields, one element each,        *)
(* followed by the terminator bytes; specification, section 4.3).          *)

\* b"\r\n\r\n"
Terminator == <<13, 10, 13, 10>>

\* The element that stands for a well-formed "GET <path> HTTP/1.1" request
\* line with the Upgrade, Connection and Version headers.
GetLine == 71

\* slice.ends_with(suffix)
ends_with(data, suffix) ==
    /\ Len(data) >= Len(suffix)
    /\ SubSeq(data, Len(data) - Len(suffix) + 1, Len(data)) = suffix

\* Whether the terminator occurs in data.
HasTerminator(data) ==
    \E i \in 0..Len(data) : ends_with(Head0(data, i), Terminator)

\* The result of a handshake parse: "no message yet", a parse error, or
\* the parsed fields.
HsNone == [kind |-> "None", a |-> 0, b |-> 0]
HsErr == [kind |-> "Err", a |-> 0, b |-> 0]

\* Request::parse: [a |-> the request line, b |-> Sec-WebSocket-Key]
Request_parse(data) ==
    IF ~HasTerminator(data) THEN HsNone
    ELSE IF data[1] # GetLine \/ data[2] = 13 THEN HsErr
    ELSE [kind |-> "Some", a |-> data[1], b |-> data[2]]

\* Response::parse: [a |-> the status, b |-> Sec-WebSocket-Accept]
Response_parse(data) ==
    IF ~HasTerminator(data) THEN HsNone
    ELSE IF data[1] < 100 \/ data[2] = 13 THEN HsErr
    ELSE [kind |-> "Some", a |-> data[1], b |-> data[2]]

\* Request::format / Response::format
Request_format(key) == <<GetLine, key>> \o Terminator
Response_format(status, accept) == <<status, accept>> \o Terminator

\* Request::hashed_key: base64(sha1(key || GUID)), here an injection of
\* the keys into the accept values that is not the identity.
hashed_key(key) == key + 100

\* The key of the request build_request makes.
ClientKey == 7

\* "HTTP/1.1 400 Bad Request\r\n\r\n{msg}" and
\* "HTTP/1.1 500 Internal Server Error\r\n\r\n{msg}" (connection.rs 265, 284)
ErrorResponse(status, msg) == <<status, 0>> \o Terminator \o msg

---------------------------------------------------------------------------
(* The handshake (connection.rs 370-511).                                  *)

\* The index `end` of read_handshake (connection.rs 449-459): the number
\* of leading indexes ind with data[..ind] not ending in the terminator.
RECURSIVE FindEnd(_, _)
FindEnd(data, ind) ==
    IF ind >= Len(data) \/ ends_with(Head0(data, ind), Terminator) THEN ind
    ELSE FindEnd(data, ind + 1)

\* What a socket write does in one call of write(): it takes n bytes, and
\* then either would block or (zero) reports a write of 0 bytes.
WouldBlock(w) == w.n = 0 /\ ~w.zero

\* The second half of read_handshake and of write_handshake: the state is
\* replaced by Open and both buffered messages are parsed
\* (connection.rs 397-405, 467-475).
open_parse(m) ==
    LET request == Request_parse(m.c.req.data)
        response == Response_parse(m.c.res.data)
        m1 == SetState(m, "Open")
    IN  IF request.kind = "Err" THEN Return(m1, Err("Parse", ErrText))
        ELSE IF request.kind = "None" THEN Return(m1, Err("Internal", ErrText))
        ELSE IF response.kind = "Err" THEN Return(m1, Err("Parse", ErrText))
        ELSE IF response.kind = "None" THEN Return(m1, Err("Internal", ErrText))
        ELSE Return(m1, Ok)

\* Connection::write_handshake (connection.rs 370-428) once the state has
\* been replaced by Open and both messages parsed (m2): the server's
\* answer decides (connection.rs 407-424).
server_opened(m2, response) ==
    IF ~IsOk(m2) THEN m2
    ELSE IF response.a # 101
    THEN IF response.a # 301 /\ response.a # 302
         THEN Return(m2, Err("Protocol", ErrText))
         ELSE [m2 EXCEPT !.c.events = (m2.c.events \cup {Readable})
                                         \ {Writable}]
    ELSE check_events([Log(m2, Call("on_open", "", 0, <<>>)) EXCEPT
                          !.c.events = m2.c.events \cup {Readable}])

\* The socket takes w.n bytes of the handshake message in buf
\* (try_write_buf, connection.rs 375, 385).
write_buf(m, buf, w) ==
    LET moved == [buf EXCEPT !.pos = buf.pos + w.n]
        bytes == SubSeq(buf.data, buf.pos + 1, buf.pos + w.n)
    IN  IF is_server(m)
        THEN [m EXCEPT !.c.res = moved, !.s.tx = m.s.tx \o bytes, !.r = Ok]
        ELSE [m EXCEPT !.c.req = moved, !.s.tx = m.s.tx \o bytes, !.r = Ok]

\* The first half of write_handshake (connection.rs 371-395), m1 being m
\* after the socket's write and done whether that one write took the
\* whole message.
handshake_written(m, m1, done) ==
    IF is_client(m)
    THEN IF done
         THEN [m1 EXCEPT !.c.events = (m.c.events \cup {Readable})
                                        \ {Writable}]
         ELSE m1
    ELSE IF ~done THEN m1
    ELSE server_opened(open_parse(m1), Response_parse(m.c.res.data))

\* Connection::write_handshake (connection.rs 370-428)
write_handshake(m, w) ==
    handshake_written(m,
        write_buf(m, IF is_server(m) THEN m.c.res ELSE m.c.req, w),
        ~WouldBlock(w)
          /\ Len(IF is_server(m) THEN m.c.res.data ELSE m.c.req.data) = w.n)

\* The server's half of read_handshake (connection.rs 433-444) when n
\* bytes have arrived; status is the status of the response the handler's
\* on_request makes.
request_read(m, srv, request, n, status) ==
    IF n = 0 THEN Return(m, Ok)
    ELSE IF request.kind = "Err" THEN Return(srv, Err("Parse", ErrText))
    ELSE IF request.kind = "None" THEN Return(srv, Ok)
    ELSE [Log(srv, Call("on_request", "", status, <<>>)) EXCEPT
            !.c.res.data = m.c.res.data \o
                Response_format(status, hashed_key(request.b)),
            !.c.events = (m.c.events \ {Readable}) \cup {Writable},
            !.r = Ok]

\* early_frames leaving the frames that came with the response to the
\* next read().
early_frames_Later(m2, rng) == then_check_events(m2)

\* read_handshake after on_response and on_open (m2): the frames that
\* came with the response are read (connection.rs 503-508).
early_frames(m2, rng) ==
    then_check_events(IF m2.c.in_buffer.data # <<>> THEN read_frames(m2, rng)
                      ELSE m2)

\* The second half of read_handshake (connection.rs 467-508), m1 being
\* the connection after open_parse, response the parsed response and
\* req_key the key of the request.
client_opened(m1, response, req_key, rng) ==
    IF ~IsOk(m1) THEN m1
    ELSE IF response.a # 101
    THEN IF response.a # 301 /\ response.a # 302
         THEN Return(m1, Err("Protocol", ErrText))
         ELSE Return(m1, Ok)
    ELSE IF m1.c.settings.key_strict /\ hashed_key(req_key) # response.b
    THEN Return(m1, Err("Protocol", ErrText))
    ELSE early_frames(Log(Log(m1, Call("on_response", "", response.a, <<>>)),
                          Call("on_open", "", 0, <<>>)),
                      rng)

\* The client's half of read_handshake (connection.rs 445-464), pre being
\* the connection with the bytes read, cut at the end of the response.
response_read(pre, rng) ==
    client_opened(open_parse(pre), Response_parse(pre.c.res.data),
                  Request_parse(pre.c.req.data).b, rng)

\* Connection::read_handshake (connection.rs 430-511) when n bytes have
\* arrived: a client whose read would block (n = 0) goes on to the
\* second half.
read_handshake(m, n, status, rng) ==
    LET bytes == Head0(m.s.rx, n)
        m0 == [m EXCEPT !.s.rx = Tail0(m.s.rx, n)]
        data == m.c.res.data \o bytes
        end == FindEnd(data, 0)
    IN  IF is_server(m)
        THEN request_read(m, [m0 EXCEPT !.c.req.data = m.c.req.data \o bytes],
                          Request_parse(m.c.req.data \o bytes), n, status)
        ELSE IF n > 0 /\ ~ends_with(Head0(data, end), Terminator)
        THEN Return([m0 EXCEPT !.c.res.data = data], Ok)
        ELSE response_read(
                IF n = 0 THEN m
                ELSE [m0 EXCEPT !.c.res.data = Head0(data, end),
                                !.c.in_buffer = VecAppend(m.c.in_buffer,
                                                          Tail0(data, end))],
                rng)

---------------------------------------------------------------------------
(* read(), write(), error() and reset() (connection.rs 193-368, 513-536,   *)
(* 723-759).                                                               *)

\* negotiating_swap leaving the desired events as they are.
negotiating_swap_Kept(res, from, to) == res

\* if self.socket.is_negotiating() && res.is_ok(): the interest moves from
\* `from` to `to` (connection.rs 529-532, 752-755).
negotiating_swap(res, from, to) ==
    IF res.s.negotiating /\ IsOk(res)
    THEN [res EXCEPT !.c.events = (res.c.events \ {from}) \cup {to}]
    ELSE res

\* The loop of write() over out_buffer (connection.rs 734-750): the socket
\* takes w.n bytes.
write_out(m, w) ==
    LET ob == m.c.out_buffer
        bytes == SubSeq(ob.data, ob.pos + 1, ob.pos + w.n)
        pos == ob.pos + w.n
        finished == (w.n > 0 /\ pos = Len(ob.data)) \/ w.zero
        m1 == [m EXCEPT !.c.events = m.c.events \ {Writable},
                        !.c.out_buffer.pos = pos,
                        !.s.tx = m.s.tx \o bytes,
                        !.h.sent = m.h.sent \o bytes,
                        !.r = Ok]
    IN  IF finished /\ is_server(m) /\ is_closing(m)
        THEN [m1 EXCEPT !.c.events = {}]
        ELSE check_events(m1)

\* The arm of write() for a stream that is not negotiating
\* (connection.rs 728-757).
write_ready(m, w) ==
    negotiating_swap(IF is_connecting(m) THEN write_handshake(m, w)
                     ELSE write_out(m, w),
                     Writable, Readable)

\* read() outside Connecting, bi being what buffer_in returned
\* (connection.rs 523-527).
frames_buffered(bi, rng) ==
    IF ~IsOk(bi.m) THEN bi.m
    ELSE IF bi.some THEN read_frames(bi.m, rng)
    ELSE Return(bi.m, Ok)

\* The arm of read() for a stream that is not negotiating
\* (connection.rs 518-534).
read_ready(m, n, status, rng) ==
    negotiating_swap(IF is_connecting(m) THEN read_handshake(m, n, status, rng)
                     ELSE frames_buffered(buffer_in(m, n), rng),
                     Readable, Writable)

\* Connection::read and Connection::write (connection.rs 513-536, 723-759):
\* a negotiating stream is cleared and served by the other method's arm.
ready(m, reading, n, status, rng, w) ==
    IF reading THEN read_ready(m, n, status, rng) ELSE write_ready(m, w)

\* Connection::read (connection.rs 513-536)
read(m, n, status, rng, w) ==
    ready([m EXCEPT !.s.negotiating = FALSE], ~m.s.negotiating,
          n, status, rng, w)

\* Connection::write (connection.rs 723-759)
write(m, w, n, status, rng) ==
    ready([m EXCEPT !.s.negotiating = FALSE], m.s.negotiating,
          n, status, rng, w)

\* error() in Connecting for a kind that is answered with an HTTP error
\* (connection.rs 258-294).
respond_on_error(m, err, status) ==
    LET m1 == Log(m, Call("on_error", err.kind, 0, <<>>))
    IN  IF is_server(m)
        THEN [m1 EXCEPT !.c.res.data = ErrorResponse(status, err.msg),
                        !.c.events = (m.c.events \ {Readable})
                                        \cup {Writable},
                        !.r = Ok]
        ELSE [m1 EXCEPT !.c.events = {}, !.r = Ok]

\* ErrorCode with the codes of Capacity and Protocol errors exchanged.
ErrorCode_Exchanged(kind) ==
    CASE kind = "Internal" -> CloseCode_Error
      [] kind = "Capacity" -> CloseCode_Protocol
      [] kind = "Protocol" -> CloseCode_Size
      [] OTHER -> CloseCode_Invalid

\* The close code error() answers an error kind with outside Connecting
\* (connection.rs 298-347).
ErrorCode(kind) ==
    CASE kind = "Internal" -> CloseCode_Error
      [] kind = "Capacity" -> CloseCode_Size
      [] kind = "Protocol" -> CloseCode_Protocol
      [] OTHER -> CloseCode_Invalid

\* Connection::error (connection.rs 249-368), the panic_on_* settings off.
\* The arm for Io errors in Connecting is compiled only with the "ssl"
\* feature (connection.rs 253-257): settings.feature_ssl is the build.
error(m, err, key) ==
    IF is_connecting(m)
    THEN IF err.kind = "Io" /\ m.c.settings.feature_ssl
         THEN Terminate(m, err.kind)
         ELSE respond_on_error(m, err,
                               IF err.kind = "Protocol" THEN 400 ELSE 500)
    ELSE IF err.kind \in {"Internal", "Capacity", "Protocol", "Encoding"}
    THEN or_terminate(send_close(Log(m, Call("on_error", err.kind, 0, <<>>)),
                                 ErrorCode(err.kind), err.msg, key))
    ELSE IF err.kind = "Custom"
    THEN Return(Log(m, Call("on_error", err.kind, 0, <<>>)), Ok)
    ELSE Terminate(m, err.kind)

\* reset keeping the candidate address it connects to.
reset_KeepAddress(m) ==
    LET m1 == [m EXCEPT !.c.req.pos = 0, !.c.res.pos = 0,
                        !.c.events = (m.c.events \ {Readable})
                                        \cup {Writable}]
    IN  IF ~is_client(m) \/ ~is_connecting(m)
        THEN Return(m, Err("Internal", ErrText))
        ELSE IF m.c.addresses = <<>>
        THEN Return(m1, Err("Internal", ErrText))
        ELSE [m1 EXCEPT !.s = [rx |-> m.s.script, tx |-> <<>>,
                               script |-> m.s.script,
                               negotiating |-> FALSE],
                        !.r = Ok]

\* Connection::reset (connection.rs 194-217); the new socket is connected
\* to a peer that will send the same bytes as the first one.
reset(m) ==
    LET m1 == [m EXCEPT !.c.req.pos = 0, !.c.res.pos = 0,
                        !.c.events = (m.c.events \ {Readable})
                                        \cup {Writable}]
    IN  IF ~is_client(m) \/ ~is_connecting(m)
        THEN Return(m, Err("Internal", ErrText))
        ELSE IF m.c.addresses = <<>>
        THEN Return(m1, Err("Internal", ErrText))
        ELSE [m1 EXCEPT !.c.addresses =
                            Head0(m.c.addresses, Len(m.c.addresses) - 1),
                        !.s = [rx |-> m.s.script, tx |-> <<>>,
                               script |-> m.s.script,
                               negotiating |-> FALSE],
                        !.r = Ok]

---------------------------------------------------------------------------
(* Construction and the environment.                                       *)

\* settings.in_buffer_capacity and settings.out_buffer_capacity of the
\* connections of the model, small so that the buffers fill.
InBufCap == 8
OutBufCap == 8

\* The masks generate_mask may draw, and the draws of one call.
MaskKeys == {<<1, 2, 3, 4>>, <<255, 128, 7, 64>>}
NoKey == <<0, 0, 0, 0>>
Rngs(p) == IF p = "client" THEN {<<k>> : k \in env.keys} ELSE {<<NoKey>>}

\* Settings
Settings(frag, mstrict, kstrict, igrow, ogrow, ssl) ==
    [fragment_size |-> frag, masking_strict |-> mstrict,
     key_strict |-> kstrict,
     in_buffer_capacity |-> InBufCap, in_buffer_grow |-> igrow,
     out_buffer_capacity |-> OutBufCap, out_buffer_grow |-> ogrow,
     feature_ssl |-> ssl]

\* Connection::new followed by as_server or as_client
\* (connection.rs 99-133): p is "server" or "client".
NewConnection(p, settings, addrs) ==
    [state |-> "Connecting",
     req |-> [data |-> IF p = "client" THEN Request_format(ClientKey)
                       ELSE <<>>,
              pos |-> 0],
     res |-> [data |-> <<>>, pos |-> 0],
     endpoint |-> IF p = "client" THEN "Client" ELSE "Server",
     events |-> {Hup, IF p = "client" THEN Writable ELSE Readable},
     fragments |-> <<>>,
     in_buffer |-> NewCursor(settings.in_buffer_capacity),
     out_buffer |-> NewCursor(settings.out_buffer_capacity),
     addresses |-> IF p = "client" THEN addrs ELSE <<>>,
     settings |-> settings]

\* A connected socket whose peer will send script.
NewSocket(script) ==
    [rx |-> script, tx |-> <<>>, script |-> script, negotiating |-> FALSE]

\* The peer of a server sends its frames once it has read the response:
\* while a server is Connecting only the request can have arrived.
Arrived(p) ==
    IF p = "server" /\ conn[p].state = "Connecting"
    THEN Max(0, Len(sock[p].rx) - (Len(sock[p].script) - Len(Terminator) - 2))
    ELSE Len(sock[p].rx)

\* Nothing observed yet.
NoCall == [msg |-> [op |-> "Bad", data |-> <<>>], from |-> 0, to |-> 0,
           ok |-> FALSE]
NoHistory ==
    [calls |-> <<>>,    \* the handler's callbacks, but on_frame
     parsed |-> <<>>,   \* the frames Frame::parse returned, and the state then
     recv |-> <<>>,     \* the frames given to on_frame
     frames |-> <<>>,   \* the frames put in out_buffer, before masking
     enq |-> <<>>,      \* their bytes as formatted
     sent |-> <<>>,     \* the bytes of out_buffer the socket has taken
     api |-> NoCall,    \* the last call of send_message
     path |-> <<"Connecting">>,  \* the states the connection has been in
     hs |-> [req |-> <<>>, res |-> <<>>]]  \* the handshake when it ended

\* The machine of peer p, and the next state with peer p's machine m.
Mach(p) == [c |-> conn[p], s |-> sock[p], h |-> hist[p], r |-> ret[p]]
Commit(p, m) ==
    /\ conn' = [conn EXCEPT ![p] = m.c]
    /\ sock' = [sock EXCEPT ![p] = m.s]
    /\ hist' = [hist EXCEPT ![p] = m.h]
    /\ ret' = [ret EXCEPT ![p] = m.r]

\* The callbacks named cb the handler of p has had.
CallsOf(p, cb) == {i \in DOMAIN hist[p].calls : hist[p].calls[i].cb = cb}

\* The outcomes of the socket in one write() over a buffer with `left`
\* unsent bytes.
Writes(left) == [n : 0..left, zero : BOOLEAN]
Unsent(p) ==
    IF conn[p].state = "Connecting"
    THEN (IF p = "server" THEN Len(conn[p].res.data) - conn[p].res.pos
          ELSE Len(conn[p].req.data) - conn[p].req.pos)
    ELSE Len(conn[p].out_buffer.data) - conn[p].out_buffer.pos

\* The statuses the handler's on_request answers with.
HandlerStatus == {101, 302, 404}

---------------------------------------------------------------------------
(* The operations as actions.  The reactor calls read() when the           *)
(* connection wants readable and write() when it wants writable, and       *)
(* feeds every Err a call returns to error() before anything else.         *)

Ready(p) == p \in DOMAIN conn /\ ret[p].kind = "Ok"
NoWrite == [n |-> 0, zero |-> FALSE]
Spend == env' = [env EXCEPT !.calls = env.calls - 1]
\* A read or a write of n of `all` bytes: a part costs one split unless
\* parts are free.
Split(n, all, free) ==
    IF free \/ n \in {0, all} THEN UNCHANGED env
    ELSE /\ env.splits > 0
         /\ env' = [env EXCEPT !.splits = env.splits - 1]

Read(p) ==
    /\ Ready(p)
    /\ Readable \in conn[p].events
    /\ \E n \in 0..Arrived(p), rng \in Rngs(p),
          status \in (IF p = "server" /\ conn[p].state = "Connecting"
                      THEN HandlerStatus ELSE {101}) :
          /\ Commit(p, read(Mach(p), n, status, rng, NoWrite))
          /\ Split(n, Arrived(p), env.rfree)

Write(p) ==
    /\ Ready(p)
    /\ Writable \in conn[p].events
    /\ \E w \in Writes(Unsent(p)) :
          /\ conn[p].state = "Connecting" => (w.zero => w.n = 0)
          /\ Commit(p, write(Mach(p), w, 0, 101, <<NoKey>>))
          /\ Split(w.n, Unsent(p), env.wfree)

HandleError(p) ==
    /\ p \in DOMAIN conn
    /\ ret[p].kind # "Ok"
    /\ \E rng \in Rngs(p) : Commit(p, error(Mach(p), ret[p], rng[1]))
    /\ UNCHANGED env

SendMessage(p) ==
    /\ Ready(p) /\ env.calls > 0
    /\ \E msg \in env.outgoing, rng \in Rngs(p) :
          LET m == send_message(Mach(p), msg, rng)
          IN  Commit(p, [m EXCEPT !.h.api = [msg |-> msg,
                                             from |-> Len(hist[p].frames),
                                             to |-> Len(m.h.frames),
                                             ok |-> IsOk(m)]])
    /\ Spend

\* m, the connection of p after a call of a send method, with the call
\* noted: what was sent and the frames the call put in out_buffer.
Noted(p, m, op, data) ==
    [m EXCEPT !.h.api = [msg |-> [op |-> op, data |-> data],
                         from |-> Len(hist[p].frames),
                         to |-> Len(m.h.frames),
                         ok |-> IsOk(m)]]

SendPing(p) ==
    /\ Ready(p) /\ env.calls > 0
    /\ \E rng \in Rngs(p) : Commit(p, send_ping(Mach(p), <<104>>, rng[1]))
    /\ Spend

SendPong(p) ==
    /\ Ready(p) /\ env.calls > 0
    /\ \E rng \in Rngs(p) :
          Commit(p, Noted(p, send_pong(Mach(p), <<104>>, rng[1]),
                          "Pong", <<104>>))
    /\ Spend

SendClose(p) ==
    /\ Ready(p) /\ env.calls > 0
    /\ \E rng \in Rngs(p) :
          Commit(p, Noted(p, send_close(Mach(p), CloseCode_Normal, <<>>,
                                        rng[1]),
                          "Close", <<>>))
    /\ Spend

Shutdown(p) ==
    /\ Ready(p) /\ env.calls > 0
    /\ \E rng \in Rngs(p) : Commit(p, shutdown(Mach(p), rng[1]))
    /\ Spend

\* An error that no call of the connection returned: the socket's (Io) or
\* the handler's own (Custom).
ErrorCall(p) ==
    /\ Ready(p) /\ env.calls > 0
    /\ \E kind \in {"Io", "Custom"}, rng \in Rngs(p) :
          Commit(p, error(Mach(p), Err(kind, ErrText), rng[1]))
    /\ Spend

Reset(p) ==
    /\ Ready(p) /\ env.calls > 0
    /\ Commit(p, reset(Mach(p)))
    /\ Spend

---------------------------------------------------------------------------
(* Spec: one connection from its construction on, a client or a server,    *)
(* against a peer that sends a handshake message and then frames.          *)

\* The mask the peer of a server puts on its frames.
PeerKey == <<9, 8, 7, 6>>

\* The bytes of frame f as the peer of p sends it.
PeerFrame(p, f) ==
    Frame_format(IF p = "server" THEN set_mask(f, PeerKey) ELSE f)

TextH == Frame_message(<<104>>, "Text", TRUE)
CloseNormal == Frame_close(CloseCode_Normal, <<>>)

\* What the peer of p may send over the life of the connection.
Scripts(p) ==
    IF p = "client"
    THEN { Response_format(101, hashed_key(ClientKey))
               \o PeerFrame(p, TextH) \o PeerFrame(p, CloseNormal),
           Response_format(101, 1) \o PeerFrame(p, TextH),
           Response_format(302, 1) \o PeerFrame(p, TextH),
           Response_format(404, 1),
           Response_format(0, 1) }
    ELSE { Request_format(ClientKey)
               \o PeerFrame(p, TextH) \o PeerFrame(p, CloseNormal),
           Request_format(ClientKey),
           <<70, 7>> \o Terminator }

\* The builds and settings of the connections of Spec: key_strict with
\* the ssl feature, or neither.
Builds == {Settings(1, FALSE, b, TRUE, TRUE, b) : b \in BOOLEAN}

Init ==
    \E p \in {"client", "server"}, settings \in Builds :
    \E script \in Scripts(p) :
       /\ conn = [q \in {p} |-> NewConnection(p, settings, <<1>>)]
       /\ sock = [q \in {p} |-> NewSocket(script)]
       /\ hist = [q \in {p} |-> NoHistory]
       /\ ret = [q \in {p} |-> Ok]
       /\ env = [calls |-> MaxCalls, splits |-> MaxSplits, rfree |-> FALSE,
                 wfree |-> FALSE,
                 keys |-> {<<1, 2, 3, 4>>},
                 outgoing |-> {[op |-> "Text", data |-> <<104>>]},
                 incoming |-> <<>>]

Next ==
    \/ \E p \in DOMAIN conn : Read(p)
    \/ \E p \in DOMAIN conn : Write(p)
    \/ \E p \in DOMAIN conn : HandleError(p)
    \/ \E p \in DOMAIN conn : SendMessage(p)
    \/ \E p \in DOMAIN conn : SendPing(p)
    \/ \E p \in DOMAIN conn : SendPong(p)
    \/ \E p \in DOMAIN conn : SendClose(p)
    \/ \E p \in DOMAIN conn : Shutdown(p)
    \/ \E p \in DOMAIN conn : ErrorCall(p)
    \/ \E p \in DOMAIN conn : Reset(p)

Spec == Init /\ [][Next]_vars

---------------------------------------------------------------------------
(* Connections that have completed the handshake, for the specifications   *)
(* about frames: the state after construction, a handshake with one read   *)
(* and one write that take the whole message, and nothing else.            *)

\* The handshake message the peer of p sends.
Hello(p) ==
    IF p = "client" THEN Response_format(101, hashed_key(ClientKey))
    ELSE Request_format(ClientKey)

\* The machine of a new connection p whose peer will send script.
Machine0(p, settings, script) ==
    [c |-> NewConnection(p, settings, <<>>), s |-> NewSocket(script),
     h |-> NoHistory, r |-> Ok]

\* One call of read() (reading) or write() in which the socket gives the
\* whole handshake message or takes everything unsent.
Whole(m, p, reading) ==
    ready(m, reading, Len(Hello(p)), 101, <<NoKey>>,
          [n |-> IF p = "client" THEN Len(m.c.req.data) - m.c.req.pos
                 ELSE Len(m.c.res.data) - m.c.res.pos,
           zero |-> FALSE])

\* The machine of p in state Open: a client writes its request and reads
\* the response, a server reads the request and writes its response.
Established(p, settings) ==
    Whole(Whole(Machine0(p, settings, Hello(p)), p, p = "server"),
          p, p = "client")

\* The peer of m then sends frames.
Sending(m, frames) ==
    [m EXCEPT !.s.rx = frames, !.s.script = @ \o frames]

\* The variables for the one connection p with machine m.
Alone(p, m) ==
    /\ conn = [q \in {p} |-> m.c]
    /\ sock = [q \in {p} |-> m.s]
    /\ hist = [q \in {p} |-> m.h]
    /\ ret = [q \in {p} |-> m.r]

\* The default settings but for the two small buffers, and a client with
\* them after its handshake.
Plain == Settings(1, FALSE, FALSE, TRUE, TRUE, FALSE)
PlainClient == Established("client", Plain)
PlainServer == Established("server", Plain)
PlainPeer(p) == IF p = "client" THEN PlainClient ELSE PlainServer

---------------------------------------------------------------------------
(* SpecCodes: a client in state Open receives one Close frame, for every   *)
(* close code.  SpecClose: a client or a server in state Open receives a   *)
(* Close frame with a reason, possibly a second one, and may itself close. *)

\* The close codes a 16-bit field holds.
AllCodes == 0..65535

\* The Close frame of the peer with the number code and the bytes reason.
PeerClose(code, reason) ==
    [Frame_default EXCEPT !.payload = ToBE(code, 2) \o reason]

InitCodes ==
    \E code \in AllCodes :
       /\ Alone("client",
                Sending(PlainClient,
                        PeerFrame("client", PeerClose(code, <<>>))))
       /\ env = [calls |-> 0, splits |-> 0, rfree |-> FALSE, wfree |-> FALSE,
                 keys |-> {<<1, 2, 3, 4>>}, outgoing |-> {},
                 incoming |-> <<[code |-> code, reason |-> <<>>]>>]

NextCodes ==
    \/ \E p \in DOMAIN conn : Read(p)
    \/ \E p \in DOMAIN conn : Write(p)
    \/ \E p \in DOMAIN conn : HandleError(p)

SpecCodes == InitCodes /\ [][NextCodes]_vars

\* The close frames the peer sends first in SpecClose: codes on both
\* sides of every bound, and reasons that are empty, ASCII, two-byte UTF-8
\* and not UTF-8.
SampleCodes == {999, 1000, 1001, 1005, 1007, 1011, 2999, 3000, 4999, 5000}
Reasons == {<<>>, <<104>>, <<195, 169>>, <<255>>}

InitClose ==
    \E p \in {"client", "server"}, code \in SampleCodes, reason \in Reasons,
       again \in BOOLEAN :
       /\ Alone(p, Sending(PlainPeer(p),
                    PeerFrame(p, PeerClose(code, reason)) \o
                    (IF again THEN PeerFrame(p, CloseNormal) ELSE <<>>)))
       /\ env = [calls |-> MaxCalls, splits |-> 0, rfree |-> TRUE,
                 wfree |-> FALSE,
                 keys |-> {<<1, 2, 3, 4>>}, outgoing |-> {},
                 incoming |-> <<[code |-> code, reason |-> reason]>>]

NextClose ==
    \/ \E p \in DOMAIN conn : Read(p)
    \/ \E p \in DOMAIN conn : Write(p)
    \/ \E p \in DOMAIN conn : HandleError(p)
    \/ \E p \in DOMAIN conn : SendClose(p)
    \/ \E p \in DOMAIN conn : SendPong(p)

SpecClose == InitClose /\ [][NextClose]_vars

\* The close codes that are refused, and those that are answered.
RefusedCodes ==
    (0..999) \cup {1004, 1014, 1016, 1100, 2000, 2999} \cup (5000..65535)
        \cup {1005, 1006, 1012, 1013, 1015}
AnsweredCodes == {1000, 1001, 1002, 1003, 1007, 1008, 1009, 1010, 1011}

\* The code and the reason of a Close frame as received.
CodeOf(f) == FromBE(Head0(remove_mask(f).payload, 2))
ReasonOf(f) == Tail0(remove_mask(f).payload, 2)

\* The Close frames p has put in out_buffer.
ClosesOf(p) ==
    {i \in DOMAIN hist[p].frames : hist[p].frames[i].opcode = "Close"}

\* A read of p returned a Protocol error, now or before.
ProtocolError(p) ==
    \/ ret[p].kind = "Protocol"
    \/ \E i \in CallsOf(p, "on_error") : hist[p].calls[i].op = "Protocol"

\* C8: a Close frame received in state Open with a refused code (0..999,
\* 1004, 1014, 1016, 1100, 2000, 2999, 5000..65535, Status, Abnormal,
\* Restart, Again, Tls) makes a Protocol error and is not echoed; one with
\* a code among 1000, 1001, 1002, 1003, 1007, 1008, 1009, 1010, 1011 is
\* given to on_close and echoed.
C8_CloseCodeValidity ==
    \A p \in DOMAIN conn :
       \A i \in DOMAIN hist[p].parsed :
          LET f == hist[p].parsed[i].f
              code == CodeOf(f)
          IN  (f.opcode = "Close" /\ hist[p].parsed[i].st = "Open") =>
                /\ code \in RefusedCodes =>
                      /\ ProtocolError(p)
                      /\ \A j \in ClosesOf(p) :
                            Head0(hist[p].frames[j].payload, 2) # ToBE(code, 2)
                /\ code \in AnsweredCodes =>
                      /\ \E j \in CallsOf(p, "on_close") :
                            hist[p].calls[j].code = code
                      /\ \E j \in ClosesOf(p) :
                            hist[p].frames[j].payload = ToBE(code, 2)

\* A refused code of each kind has been received and refused.
C8_Witness ==
    \E p \in DOMAIN conn :
       /\ hist[p].parsed # <<>>
       /\ CodeOf(hist[p].parsed[1].f) = 1015
       /\ ret[p].kind = "Protocol"
       /\ ClosesOf(p) = {}

\* What a step adds to a log of p.
Added(before, after) == SubSeq(after, Len(before) + 1, Len(after))

\* C9: a Close frame received in state Open with a code that is not refused
\* and at least 2 payload bytes makes exactly one on_close with the code
\* and the reason (empty if the reason is not UTF-8), puts exactly one
\* Close frame in out_buffer, with the same code (1007 if the reason is
\* not UTF-8) and an empty reason, and makes the state Closing.
C9_CloseInOpenAnswered ==
    [][\A p \in DOMAIN conn :
          LET new == Added(hist[p].parsed, hist'[p].parsed)
              calls == Added(hist[p].calls, hist'[p].calls)
              frames == Added(hist[p].frames, hist'[p].frames)
              code == CodeOf(new[1].f)
              reason == ReasonOf(new[1].f)
              valid == Utf8Valid(reason)
          IN  (/\ conn[p].state = "Open"
               /\ new # <<>>
               /\ new[1].f.opcode = "Close"
               /\ Len(new[1].f.payload) >= 2
               /\ code \notin RefusedCodes) =>
                 /\ calls = <<Call("on_close", CloseCode_from(code).name, code,
                                   IF valid THEN reason ELSE <<>>)>>
                 /\ frames = <<Frame_close(IF valid THEN CloseCode_from(code)
                                           ELSE CloseCode_Invalid, <<>>)>>
                 /\ conn'[p].state = "Closing"]_vars

\* A Close frame with a reason that is not UTF-8 has been answered.
C9_Witness ==
    \E p \in DOMAIN conn :
       /\ hist[p].parsed # <<>>
       /\ hist[p].parsed[1].st = "Open"
       /\ CodeOf(hist[p].parsed[1].f) = 3000
       /\ ReasonOf(hist[p].parsed[1].f) = <<255>>
       /\ conn[p].state = "Closing"
       /\ \E i \in ClosesOf(p) : hist[p].frames[i].payload = ToBE(1007, 2)

\* C10: a Close frame received in state Closing is ignored: no on_close,
\* no Close frame put in out_buffer, and the state, the events, the
\* fragments and out_buffer stay as they are.
C10_CloseInClosingIgnored ==
    [][\A p \in DOMAIN conn :
          LET new == Added(hist[p].parsed, hist'[p].parsed)
          IN  (/\ conn[p].state = "Closing"
               /\ new # <<>>
               /\ \A i \in DOMAIN new : new[i].f.opcode = "Close") =>
                 /\ hist'[p].calls = hist[p].calls
                 /\ hist'[p].frames = hist[p].frames
                 /\ conn'[p].state = conn[p].state
                 /\ conn'[p].events = conn[p].events
                 /\ conn'[p].fragments = conn[p].fragments
                 /\ conn'[p].out_buffer = conn[p].out_buffer]_vars

\* A Close frame has been received in state Closing.
C10_Witness ==
    \E p \in DOMAIN conn :
       \E i \in DOMAIN hist[p].parsed :
          /\ hist[p].parsed[i].f.opcode = "Close"
          /\ hist[p].parsed[i].st = "Closing"


\* A call of a send method is being made on p, in state Closing.
CallInClosing(p) == conn[p].state = "Closing" /\ env'.calls < env.calls

\* C11: in state Closing send_pong returns Ok and leaves out_buffer, events
\* and state as they were, no Pong being enqueued; send_close enqueues one
\* more Close frame and the state stays Closing.
C11_PongSuppressedCloseNot ==
    [][\A p \in DOMAIN conn :
          CallInClosing(p) =>
             /\ hist'[p].api.msg.op = "Pong" =>
                   /\ ret'[p] = Ok
                   /\ conn'[p].out_buffer = conn[p].out_buffer
                   /\ conn'[p].events = conn[p].events
                   /\ conn'[p].state = "Closing"
                   /\ hist'[p].frames = hist[p].frames
             /\ hist'[p].api.msg.op = "Close" =>
                   /\ ret'[p] = Ok
                   /\ Added(hist[p].frames, hist'[p].frames)
                         = <<Frame_close(CloseCode_Normal, <<>>)>>
                   /\ Len(conn'[p].out_buffer.data) - conn'[p].out_buffer.pos
                         > Len(conn[p].out_buffer.data) - conn[p].out_buffer.pos
                   /\ conn'[p].state = "Closing"]_vars

\* send_pong has been called after a Close frame was enqueued, and has
\* enqueued nothing.
C11_Witness ==
    \E p \in DOMAIN conn :
       /\ hist[p].api.msg.op = "Pong"
       /\ \E i \in ClosesOf(p) : i <= hist[p].api.from
       /\ hist[p].api.to = hist[p].api.from


\* C12: every frame Frame::parse yields in read_frames, in every state and
\* for every opcode, is passed to on_frame exactly once: the frames
\* on_frame was given are the frames parsed, unmasked, in order.
C12_EveryFrameThroughOnFrame ==
    \A p \in DOMAIN conn :
       /\ Len(hist[p].recv) = Len(hist[p].parsed)
       /\ \A i \in DOMAIN hist[p].parsed :
             i <= Len(hist[p].recv)
                => hist[p].recv[i] = remove_mask(hist[p].parsed[i].f)

---------------------------------------------------------------------------
(* SpecRecv: a client or a server in state Open, with a fixed or a growing *)
(* in_buffer, receives one or two messages, fragmented by the peer, with a *)
(* Ping between the frames; each read() takes any part of what is left.    *)

\* n bytes of ASCII text
PayloadOf(n) == [i \in 1..n |-> 103 + i]

\* The payloads of the peer's first message: the texts up to MaxPayload
\* bytes and one character of two bytes.
PeerPayloads == {PayloadOf(n) : n \in 0..MaxPayload} \cup {<<195, 169>>}

\* data cut by the peer in parts of k bytes
RECURSIVE Cut(_, _)
Cut(data, k) ==
    IF Len(data) <= k THEN <<data>>
    ELSE <<Head0(data, k)>> \o Cut(Tail0(data, k), k)

\* The frames of the message msg sent in parts of k bytes.
FramesOf(msg, k) ==
    LET parts == Cut(msg.data, k)
    IN  [i \in 1..Len(parts) |->
            Frame_message(parts[i], IF i = 1 THEN msg.op ELSE "Continue",
                          i = Len(parts))]

\* The bytes of the frames fs as the peer of p sends them.
RECURSIVE PeerBytes(_, _)
PeerBytes(p, fs) ==
    IF fs = <<>> THEN <<>>
    ELSE PeerFrame(p, Head(fs)) \o PeerBytes(p, Tail(fs))

\* The peer's second message.
Second == [op |-> "Binary", data |-> <<255, 0>>]

\* The frames of the peer: those of msg, a Ping after the first one if
\* ping, those of the second message if more.
PeerStream(msg, k, ping, more) ==
    LET fs == FramesOf(msg, k)
    IN  <<Head(fs)>> \o (IF ping THEN <<Frame_ping(<<104>>)>> ELSE <<>>)
          \o Tail(fs) \o (IF more THEN FramesOf(Second, 1) ELSE <<>>)

InitRecv ==
    \E p \in {"client", "server"}, igrow \in BOOLEAN,
       op \in {"Text", "Binary"}, data \in PeerPayloads,
       k \in 1..MaxFragSize, ping \in BOOLEAN, more \in BOOLEAN :
       LET msg == [op |-> op, data |-> data]
       IN  /\ Alone(p, Sending(
                    Established(p, Settings(1, FALSE, FALSE, igrow, TRUE,
                                            FALSE)),
                    PeerBytes(p, PeerStream(msg, k, ping, more))))
           /\ env = [calls |-> 0, splits |-> 0, rfree |-> TRUE,
                     wfree |-> FALSE, keys |-> {<<1, 2, 3, 4>>},
                     outgoing |-> {},
                     incoming |-> <<msg>> \o
                                  (IF more THEN <<Second>> ELSE <<>>)]

NextRecv ==
    \/ \E p \in DOMAIN conn : Read(p)
    \/ \E p \in DOMAIN conn : Write(p)
    \/ \E p \in DOMAIN conn : HandleError(p)

SpecRecv == InitRecv /\ [][NextRecv]_vars

\* The messages the handler of p has been given, in order.
Delivered(p) ==
    LET at == CallsOf(p, "on_message")
        \* the index in calls of the i-th on_message
        nth(i) == CHOOSE j \in at : Cardinality({l \in at : l <= j}) = i
    IN  [i \in 1..Cardinality(at) |->
            [op |-> hist[p].calls[nth(i)].op,
             data |-> hist[p].calls[nth(i)].data]]

IsPrefix(a, b) == Len(a) <= Len(b) /\ a = SubSeq(b, 1, Len(a))

\* C2: however the stream is split over the calls of read(), the messages
\* given to on_message are the messages the peer sent, each once and in
\* order, a fragmented one as the concatenation of its fragments under the
\* type of the first; all of them once every byte has been read without an
\* error.
C2_MessagesOnceInOrder ==
    \A p \in DOMAIN conn :
       /\ IsPrefix(Delivered(p), env.incoming)
       /\ (/\ sock[p].rx = <<>>
           /\ ret[p].kind = "Ok"
           /\ CallsOf(p, "on_error") = {})
             => Delivered(p) = env.incoming

\* Two messages have been delivered, the first from three fragments with
\* a Ping among them, through an in_buffer that was compacted.
C2_Witness ==
    \E p \in DOMAIN conn :
       /\ Len(env.incoming) = 2
       /\ Delivered(p) = env.incoming
       /\ Len(env.incoming[1].data) = 3
       /\ Len(hist[p].recv) = 6
       /\ conn[p].in_buffer.pos < Len(hist[p].parsed) * 3

---------------------------------------------------------------------------
(* SpecMask: a client or a server in state Open, with masking_strict on or *)
(* off, receives one or two final frames, each masked or not.              *)

\* The frames the peer sends in SpecMask.
MaskFrames ==
    {Frame_message(PayloadOf(n), "Text", TRUE) : n \in 1..MaxPayload}
        \cup {Frame_message(<<255, 0>>, "Binary", TRUE), Frame_ping(<<104>>)}

\* The bytes of the frames sent, each e being a frame and whether it is
\* masked.
RECURSIVE MaskBytes(_)
MaskBytes(es) ==
    IF es = <<>> THEN <<>>
    ELSE Frame_format(IF es[1].masked THEN set_mask(es[1].f, PeerKey)
                      ELSE es[1].f) \o MaskBytes(Tail(es))

InitMask ==
    \E p \in {"client", "server"}, mstrict \in BOOLEAN, f \in MaskFrames,
       masked \in BOOLEAN, more \in BOOLEAN, then \in BOOLEAN :
       LET sent == <<[f |-> f, masked |-> masked]>> \o
                   (IF more THEN <<[f |-> TextH, masked |-> then]>>
                    ELSE <<>>)
       IN  /\ Alone(p, Sending(
                    Established(p, Settings(MaxFragSize, mstrict, FALSE, TRUE,
                                            TRUE, FALSE)),
                    MaskBytes(sent)))
           /\ env = [calls |-> 0, splits |-> 0, rfree |-> TRUE,
                     wfree |-> FALSE, keys |-> {<<1, 2, 3, 4>>},
                     outgoing |-> {}, incoming |-> sent]

NextMask ==
    \/ \E p \in DOMAIN conn : Read(p)
    \/ \E p \in DOMAIN conn : Write(p)
    \/ \E p \in DOMAIN conn : HandleError(p)

SpecMask == InitMask /\ [][NextMask]_vars

\* Whether p, with masking_strict on, has to refuse the frame sent e: a
\* server an unmasked frame, a client a masked one.
WrongMask(p, e) ==
    /\ conn[p].settings.masking_strict
    /\ IF p = "server" THEN ~e.masked ELSE e.masked

\* Of the frames sent that p has parsed, those it has not to refuse.
Unrefused(p) ==
    SelectSeq(SubSeq(env.incoming, 1, Len(hist[p].parsed)),
              LAMBDA e : ~WrongMask(p, e))
DataOf(es) == SelectSeq(es, LAMBDA e : e.f.opcode \in {"Text", "Binary"})

\* C13: with masking_strict on, an unmasked frame received by a server and
\* a masked frame received by a client make a Protocol error and are given
\* neither to on_frame nor to on_message; every other frame, and every
\* frame with masking_strict off, is given to on_frame, and to on_message
\* if it is a data frame, with its payload unmasked.
C13_MaskingDirection ==
    \A p \in DOMAIN conn :
       LET parsed == SubSeq(env.incoming, 1, Len(hist[p].parsed))
           kept == Unrefused(p)
       IN  /\ (\E i \in DOMAIN parsed : WrongMask(p, parsed[i]))
                 => ProtocolError(p)
           /\ hist[p].recv = [i \in DOMAIN kept |-> kept[i].f]
           /\ Delivered(p) = [i \in DOMAIN DataOf(kept) |->
                                 [op |-> DataOf(kept)[i].f.opcode,
                                  data |-> DataOf(kept)[i].f.payload]]

\* A server with masking_strict on has refused an unmasked frame, and has
\* then been given the masked text that followed.
C13_Witness ==
    /\ DOMAIN conn = {"server"}
    /\ conn["server"].settings.masking_strict
    /\ Len(hist["server"].parsed) = 2
    /\ ~env.incoming[1].masked /\ env.incoming[2].masked
    /\ Len(hist["server"].recv) = 1
    /\ ProtocolError("server")

---------------------------------------------------------------------------
(* SpecControl: a client or a server in state Open receives the head of    *)
(* one frame whose length is declared in the 16-bit or the 64-bit form,    *)
(* with the mask key and at most one byte of the payload behind it.        *)

\* The lengths the head declares: 125 in a longer form than it needs, and
\* the lengths on both sides of the 16-bit form's end.
DeclaredLengths == {125, 126, 300, 65535, 65536}

\* The bytes of the head e: the two header bytes, the extended length and,
\* when masked, the mask key.
HeadBytes(e) ==
    <<128 + OpCode_into(e.opcode),
      (IF e.masked THEN 128 ELSE 0) + (IF e.wide = 2 THEN 126 ELSE 127)>>
        \o ToBE(e.length, e.wide)
LengthEnd(e) == 2 + e.wide

InitControl ==
    \E p \in {"client", "server"},
       opcode \in {"Ping", "Pong", "Close", "Text"},
       length \in DeclaredLengths, wide \in {2, 8}, some \in 0..1 :
       LET e == [opcode |-> opcode, length |-> length, wide |-> wide,
                 masked |-> p = "server"]
       IN  /\ wide = 2 => length < 65536
           /\ Alone(p, Sending(PlainPeer(p),
                    HeadBytes(e) \o (IF e.masked THEN PeerKey ELSE <<>>)
                        \o SubSeq(<<104>>, 1, some)))
           /\ env = [calls |-> 0, splits |-> 0, rfree |-> TRUE,
                     wfree |-> FALSE, keys |-> {<<1, 2, 3, 4>>},
                     outgoing |-> {}, incoming |-> <<e>>]

NextControl ==
    \/ \E p \in DOMAIN conn : Read(p)
    \/ \E p \in DOMAIN conn : Write(p)
    \/ \E p \in DOMAIN conn : HandleError(p)

SpecControl == InitControl /\ [][NextControl]_vars

\* The bytes of the frame that read() has taken from the socket of p.
TakenOfFrame(p) == Len(sock[p].script) - Len(Hello(p)) - Len(sock[p].rx)

\* The callbacks of the handler other than on_error.
FrameCallbacks(p) ==
    {i \in DOMAIN hist[p].calls :
        hist[p].calls[i].cb \notin {"on_error", "on_open", "on_request",
                                    "on_response"}}

\* C14: a Ping, Pong or Close frame that declares more than 125 bytes of
\* payload makes a Protocol error as soon as its header and extended
\* length have been read, whatever has arrived of its payload, and no
\* callback of the handler is given the frame.
C14_ControlFrameSize ==
    \A p \in DOMAIN conn :
       LET e == env.incoming[1]
       IN  (e.opcode \in {"Ping", "Pong", "Close"} /\ e.length > 125)
              => /\ hist[p].parsed = <<>> /\ hist[p].recv = <<>>
                 /\ FrameCallbacks(p) = {}
                 /\ TakenOfFrame(p) >= LengthEnd(e) => ProtocolError(p)

\* A Ping declaring 65536 bytes has been refused when no byte of its
\* payload had been read.
C14_Witness ==
    \E p \in DOMAIN conn :
       /\ env.incoming[1].opcode = "Ping"
       /\ env.incoming[1].length = 65536
       /\ TakenOfFrame(p) = LengthEnd(env.incoming[1])
       /\ ret[p].kind = "Protocol"

---------------------------------------------------------------------------
(* SpecSend: a client or a server in state Open, with a fixed or a growing *)
(* out_buffer, sends messages and pings; each write() hands any part of    *)
(* what is unsent to the socket.  SpecFrag: the same connections send      *)
(* every message up to MaxPayload bytes, and every write() is whole.       *)

\* The messages callers send in SpecSend: a long text and an empty binary
\* message.
FewMessages ==
    {[op |-> "Text", data |-> PayloadOf(MaxPayload)],
     [op |-> "Binary", data |-> <<>>]}

InitSend ==
    \E p \in {"client", "server"}, ogrow \in BOOLEAN, frag \in 1..MaxFragSize :
       /\ Alone(p, Established(p, Settings(frag, FALSE, FALSE, TRUE, ogrow,
                                           FALSE)))
       /\ env = [calls |-> MaxSends, splits |-> 0, rfree |-> FALSE,
                 wfree |-> TRUE, keys |-> {<<1, 2, 3, 4>>},
                 outgoing |-> FewMessages, incoming |-> <<>>]

NextSend ==
    \/ \E p \in DOMAIN conn : SendMessage(p)
    \/ \E p \in DOMAIN conn : SendPing(p)
    \/ \E p \in DOMAIN conn : Write(p)
    \/ \E p \in DOMAIN conn : HandleError(p)

SpecSend == InitSend /\ [][NextSend]_vars

\* The bytes of the frames fs as p encodes them, in order.
RECURSIVE Encoded(_, _)
Encoded(p, fs) ==
    IF fs = <<>> THEN <<>>
    ELSE Frame_format(IF p = "client"
                      THEN set_mask(Head(fs), CHOOSE k \in env.keys : TRUE)
                      ELSE Head(fs))
           \o Encoded(p, Tail(fs))

\* The bytes of out_buffer the socket has not taken.
UnsentBytes(p) == Tail0(conn[p].out_buffer.data, conn[p].out_buffer.pos)

\* C3: the bytes write() has handed to the socket, followed by the unsent
\* bytes of out_buffer, are the encoded frames in the order they were
\* enqueued, through partial writes, would-block results and the
\* compaction of check_buffer_out.
C3_OutboundInEnqueueOrder ==
    \A p \in DOMAIN conn :
       hist[p].sent \o UnsentBytes(p) = Encoded(p, hist[p].frames)

\* Frames have been enqueued behind a partly written one, out_buffer has
\* been compacted, and everything has been written.
C3_Witness ==
    \E p \in DOMAIN conn :
       /\ Len(hist[p].frames) >= 3
       /\ UnsentBytes(p) = <<>>
       /\ hist[p].sent = Encoded(p, hist[p].frames)
       /\ Len(conn[p].out_buffer.data) < Len(hist[p].sent)

\* C15: with out_buffer_grow off, the unsent bytes of out_buffer never
\* exceed out_buffer_capacity: a frame that does not fit in the room left
\* after compacting fails with a Capacity error and adds nothing.
C15_UnsentWithinCapacity ==
    \A p \in DOMAIN conn :
       ~conn[p].settings.out_buffer_grow
          => Len(UnsentBytes(p)) <= conn[p].settings.out_buffer_capacity

\* The messages callers send in SpecFrag.
AllMessages ==
    [op : {"Text", "Binary"}, data : {PayloadOf(n) : n \in 0..MaxPayload}]

InitFrag ==
    \E p \in {"client", "server"}, ogrow \in BOOLEAN, frag \in 1..MaxFragSize :
       /\ Alone(p, Established(p, Settings(frag, FALSE, FALSE, TRUE, ogrow,
                                           FALSE)))
       /\ env = [calls |-> MaxSends, splits |-> 0, rfree |-> FALSE,
                 wfree |-> FALSE, keys |-> {<<1, 2, 3, 4>>},
                 outgoing |-> AllMessages, incoming |-> <<>>]

NextFrag ==
    \/ \E p \in DOMAIN conn : SendMessage(p)
    \/ \E p \in DOMAIN conn : Write(p)
    \/ \E p \in DOMAIN conn : HandleError(p)

SpecFrag == InitFrag /\ [][NextFrag]_vars

\* The concatenation of the payloads of the frames fs.
Joined(fs) == Payloads(fs)

\* The frames the last call of send_message enqueued.
LastSent(p) ==
    SubSeq(hist[p].frames, hist[p].api.from + 1, hist[p].api.to)

\* The frames of a message of opcode op: one frame with op and FIN, or a
\* first frame with op, then Continue frames, the last one with FIN.
WellFramed(fs, op) ==
    /\ fs # <<>>
    /\ fs[1].opcode = op
    /\ \A i \in 2..Len(fs) : fs[i].opcode = "Continue"
    /\ \A i \in 1..Len(fs) : fs[i].finished <=> i = Len(fs)

Ceil(n, f) == (n + f - 1) \div f

\* C4 as stated: send_message enqueues exactly ceil(N/F) frames, also for
\* N = 0.
C4_AsStated ==
    \A p \in DOMAIN conn :
       hist[p].api.ok =>
          Len(LastSent(p)) = Ceil(Len(hist[p].api.msg.data),
                                  conn[p].settings.fragment_size)

\* C4: send_message with a payload of N bytes and fragment_size F, when
\* out_buffer has room, enqueues max(1, ceil(N/F)) frames: one frame with
\* the opcode and FIN if N <= F, else a first frame with the opcode and no
\* FIN, Continue frames without FIN and a last Continue frame with FIN;
\* no payload is longer than F and the payloads joined are the payload.
C4_FragmentsOfMessage ==
    \A p \in DOMAIN conn :
       LET msg == hist[p].api.msg
           F == conn[p].settings.fragment_size
           fs == LastSent(p)
       IN  hist[p].api.ok =>
             /\ Len(fs) = Max(1, Ceil(Len(msg.data), F))
             /\ WellFramed(fs, msg.op)
             /\ \A i \in 1..Len(fs) : Len(fs[i].payload) <= F
             /\ Joined(fs) = msg.data

\* An empty message has been sent as one frame.
C4_Witness ==
    \E p \in DOMAIN conn :
       /\ hist[p].api.ok
       /\ hist[p].api.msg.data = <<>>
       /\ Len(LastSent(p)) = 1

---------------------------------------------------------------------------
(* SpecError: a client or a server in state Open, with a fixed or a        *)
(* growing out_buffer, sends messages, closes, and has error() called      *)
(* with an error of every kind.                                            *)

\* The messages callers send in SpecError: an empty one, and the two whose
\* frame fills the out_buffer of a client and of a server to the last byte.
FillMessages ==
    {[op |-> "Binary", data |-> PayloadOf(n)] :
        n \in {0, OutBufCap - 6, OutBufCap - 2}}

InitError ==
    \E p \in {"client", "server"}, ogrow \in BOOLEAN :
       /\ Alone(p, Established(p, Settings(OutBufCap, FALSE, FALSE, TRUE,
                                           ogrow, FALSE)))
       /\ env = [calls |-> MaxSends, splits |-> 0, rfree |-> FALSE,
                 wfree |-> FALSE, keys |-> {<<1, 2, 3, 4>>},
                 outgoing |-> FillMessages, incoming |-> <<>>]

\* error(err) called with an error of any kind.
ErrorOfKind(p) ==
    /\ Ready(p) /\ env.calls > 0
    /\ \E kind \in Kinds, rng \in Rngs(p) :
          Commit(p, error(Mach(p), Err(kind, ErrText), rng[1]))
    /\ Spend

NextError ==
    \/ \E p \in DOMAIN conn : SendMessage(p)
    \/ \E p \in DOMAIN conn : SendClose(p)
    \/ \E p \in DOMAIN conn : ErrorOfKind(p)
    \/ \E p \in DOMAIN conn : Write(p)
    \/ \E p \in DOMAIN conn : HandleError(p)

SpecError == InitError /\ [][NextError]_vars

\* The callbacks the handler of p is given in the step.
NewCalls(p) == Added(hist[p].calls, hist'[p].calls)

\* The step is a call of error() on p in state Open or Closing: the first
\* thing the handler is given is on_error.
ErrorHandled(p) ==
    /\ conn[p].state \in {"Open", "Closing"}
    /\ NewCalls(p) # <<>>
    /\ NewCalls(p)[1].cb = "on_error"

\* The close code the claim gives for an error kind.
StatedCode(kind) ==
    CASE kind = "Internal" -> 1011
      [] kind = "Capacity" -> 1009
      [] kind = "Protocol" -> 1002
      [] kind = "Encoding" -> 1007

\* The step puts in the out_buffer of p exactly one frame, a Close with
\* the code stated for the kind, and leaves p in state Closing.
CloseEnqueuedFor(p, kind) ==
    LET new == Added(hist[p].frames, hist'[p].frames)
    IN  /\ Len(new) = 1
        /\ new[1].opcode = "Close"
        /\ SubSeq(new[1].payload, 1, 2) = ToBE(StatedCode(kind), 2)
        /\ Len(UnsentBytes(p))' > Len(UnsentBytes(p))
        /\ conn'[p].state = "Closing"
        /\ Len(NewCalls(p)) = 1

\* The Close cannot be enqueued: the out_buffer may not grow and its
\* unsent bytes fill it.  The handler is given the Capacity error and the
\* connection is dropped in the state it was in.
CloseRefused(p) ==
    /\ ~conn[p].settings.out_buffer_grow
    /\ Len(UnsentBytes(p)) = conn[p].out_buffer.cap
    /\ hist'[p].frames = hist[p].frames
    /\ conn'[p].out_buffer = conn[p].out_buffer
    /\ conn'[p].state = conn[p].state
    /\ Len(NewCalls(p)) = 2
    /\ NewCalls(p)[2].cb = "on_error" /\ NewCalls(p)[2].op = "Capacity"
    /\ conn'[p].events = {}

\* What error() does for the kinds that are not answered with a Close.
ErrorWithoutClose(p, kind) ==
    /\ kind = "Custom" =>
          /\ conn'[p].state = conn[p].state
          /\ conn'[p].events = conn[p].events
          /\ conn'[p].out_buffer = conn[p].out_buffer
    /\ kind \in {"Io", "Parse"} =>
          /\ conn'[p].events = {}
          /\ hist'[p].frames = hist[p].frames

---------------------------------------------------------------------------
(* SpecConnecting: a client or a server from its construction on, built    *)
(* with or without the ssl feature, against a peer that sends a good or a  *)
(* bad handshake message, has error() called with an error of every kind.  *)

InitConnecting ==
    \E p \in {"client", "server"}, settings \in Builds :
    \E script \in {Hello(p), IF p = "client" THEN Response_format(404, 1)
                             ELSE <<70, 7>> \o Terminator} :
       /\ conn = [q \in {p} |-> NewConnection(p, settings, <<1>>)]
       /\ sock = [q \in {p} |-> NewSocket(script)]
       /\ hist = [q \in {p} |-> NoHistory]
       /\ ret = [q \in {p} |-> Ok]
       /\ env = [calls |-> MaxCalls, splits |-> MaxSplits, rfree |-> FALSE,
                 wfree |-> FALSE, keys |-> {<<1, 2, 3, 4>>},
                 outgoing |-> {}, incoming |-> <<>>]

NextConnecting ==
    \/ \E p \in DOMAIN conn : Read(p)
    \/ \E p \in DOMAIN conn : Write(p)
    \/ \E p \in DOMAIN conn : HandleError(p)
    \/ \E p \in DOMAIN conn : ErrorOfKind(p)

SpecConnecting == InitConnecting /\ [][NextConnecting]_vars

\* The step leaves in the response buffer of the server p an error response
\* of the status, wants writable and no longer readable; it drops a client.
RespondsWith(p, status) ==
    IF p = "server"
    THEN /\ Head0(conn'[p].res.data, 2 + Len(Terminator))
               = ErrorResponse(status, <<>>)
         /\ Writable \in conn'[p].events
         /\ Readable \notin conn'[p].events
    ELSE conn'[p].events = {}

\* C17: error(err) in state Connecting gives err to on_error and then: an
\* Io error clears events; a Protocol error makes a server answer 400 and
\* want writable only, and drops a client; any other kind does the same
\* with 500.  No frame is put in out_buffer.
C17_ErrorInConnecting ==
    [][\A p \in DOMAIN conn :
          (/\ conn[p].state = "Connecting"
           /\ NewCalls(p) # <<>>
           /\ NewCalls(p)[1].cb = "on_error")
             => LET kind == NewCalls(p)[1].op
                IN  /\ hist'[p].frames = hist[p].frames
                    /\ conn'[p].out_buffer = conn[p].out_buffer
                    /\ kind = "Io" => conn'[p].events = {}
                    /\ kind = "Protocol" => RespondsWith(p, 400)
                    /\ kind \notin {"Io", "Protocol"}
                          => RespondsWith(p, 500)]_vars

---------------------------------------------------------------------------
(* SpecUtf8: a client or a server in state Open receives one Text message, *)
(* well-formed UTF-8 or not, whole or in fragments, and then possibly the  *)
(* peer's answer to a Close(Invalid).                                      *)

\* The payloads of the Text message: not UTF-8 from the first byte, not
\* UTF-8 from the second, a character of two bytes, and ASCII.
Utf8Payloads == {<<255>>, <<195, 40>>, <<195, 169>>, <<104, 105>>}

InitUtf8 ==
    \E p \in {"client", "server"}, data \in Utf8Payloads,
       k \in 1..MaxFragSize, answer \in BOOLEAN :
       LET msg == [op |-> "Text", data |-> data]
           fs == FramesOf(msg, k)
       IN  /\ Alone(p, Sending(PlainPeer(p),
                    PeerBytes(p, fs \o
                        (IF answer
                         THEN <<Frame_close(CloseCode_Invalid, <<>>)>>
                         ELSE <<>>))))
           /\ env = [calls |-> 0, splits |-> 0, rfree |-> TRUE,
                     wfree |-> FALSE, keys |-> {<<1, 2, 3, 4>>},
                     outgoing |-> {},
                     incoming |-> <<[op |-> "Text", data |-> data,
                                     parts |-> Len(fs)]>>]

NextUtf8 ==
    \/ \E p \in DOMAIN conn : Read(p)
    \/ \E p \in DOMAIN conn : Write(p)
    \/ \E p \in DOMAIN conn : HandleError(p)

SpecUtf8 == InitUtf8 /\ [][NextUtf8]_vars

\* The handler of p has been given an Encoding error.
EncodingReported(p) ==
    \E i \in CallsOf(p, "on_error") : hist[p].calls[i].op = "Encoding"

\* Nothing is left for p to read, to write or to handle.
Quiet(p) ==
    /\ sock[p].rx = <<>>
    /\ Unsent(p) = 0
    /\ ret[p].kind = "Ok"

\* C18: a Text message that is not UTF-8, in one frame or reassembled, is
\* not given to on_message; read() returns an Encoding error; handling it
\* reports the error to on_error and enqueues Close(Invalid=1007); and the
\* endpoint, client or server, then terminates with events empty.
C18_BadUtf8Terminates ==
    \A p \in DOMAIN conn :
       LET msg == env.incoming[1]
       IN  ~Utf8Valid(msg.data) =>
              /\ CallsOf(p, "on_message") = {}
              /\ Len(hist[p].parsed) >= msg.parts
                    => (ret[p].kind = "Encoding" \/ EncodingReported(p))
              /\ EncodingReported(p)
                    => /\ Len(hist[p].frames) = 1
                       /\ hist[p].frames[1].opcode = "Close"
                       /\ SubSeq(hist[p].frames[1].payload, 1, 2)
                             = ToBE(1007, 2)
              /\ (EncodingReported(p) /\ Quiet(p)) => conn[p].events = {}

---------------------------------------------------------------------------
(* SpecCodec: Frame::format and Frame::parse alone.  One legal frame is    *)
(* formatted; its bytes arrive in a Cursor behind `lead` bytes already     *)
(* read, whole or cut in two; Frame::parse is called on the cursor, and    *)
(* remove_mask on the frame it yields.                                     *)

\* n bytes of payload
Pattern(n) == [i \in 1..n |-> (7 * i + 3) % 256]

\* The key of the masked frames of SpecCodec.
CodecKey == <<129, 2, 255, 4>>

\* The payload lengths of SpecCodec: below and on both sides of the two
\* ends of the 16-bit length.
ShortLengths == {0, 1, 125}
LongLengths == {126, 127, 65535, 65536}

\* The frames of SpecCodec, without mask: every opcode with the short
\* lengths, data frames with the long ones, and the reserved bits.
CodecFrames ==
    {[Frame_default EXCEPT !.opcode = op, !.finished = fin,
                           !.payload = Pattern(n)] :
        op \in OpCodes, fin \in BOOLEAN, n \in ShortLengths}
    \cup
    {[Frame_default EXCEPT !.opcode = "Binary", !.payload = Pattern(n)] :
        n \in LongLengths}
    \cup
    {[Frame_default EXCEPT !.opcode = "Text", !.rsv1 = r1, !.rsv2 = r2,
                           !.rsv3 = r3, !.payload = Pattern(1)] :
        r1 \in BOOLEAN, r2 \in BOOLEAN, r3 \in BOOLEAN}

\* No call of Frame::parse since the last bytes arrived.
Pending == [kind |-> "Pending", frame |-> Frame_default, pos |-> 0]

InitCodec ==
    \E f \in CodecFrames, masked \in BOOLEAN, lead \in 0..1 :
       LET frame == IF masked THEN set_mask(f, CodecKey) ELSE f
       IN  /\ Len(f.payload) > 127 => lead = 0
           /\ conn = [q \in {"codec"} |-> [frame |-> frame,
                                           formatted |-> FALSE]]
           /\ sock = [q \in {"codec"} |->
                         [data |-> [i \in 1..lead |-> 0], pos |-> lead,
                          rest |-> <<>>]]
           /\ hist = [q \in {"codec"} |-> <<>>]
           /\ ret = [q \in {"codec"} |-> Pending]
           /\ env = [calls |-> 0, splits |-> 1, rfree |-> FALSE,
                     wfree |-> FALSE, keys |-> {CodecKey},
                     outgoing |-> {}, incoming |-> <<frame>>,
                     lead |-> lead]

\* frame.format(&mut w) (frame.rs 357-422): the bytes are on their way to
\* the cursor; the frame has given its mask away and its payload is masked
\* (frame.rs 414-418).
Format(p) ==
    /\ ~conn[p].formatted
    /\ conn' = [conn EXCEPT ![p] =
                  [frame |-> [conn[p].frame EXCEPT
                                 !.payload = IF is_masked(conn[p].frame)
                                             THEN apply_mask(@, conn[p].frame.mask)
                                             ELSE @,
                                 !.mask = <<>>],
                   formatted |-> TRUE]]
    /\ sock' = [sock EXCEPT ![p].rest = Frame_format(conn[p].frame)]
    /\ UNCHANGED <<hist, ret, env>>

\* The lengths of the first part of `all` bytes: up to the end of the
\* longest header and a byte more, and all but one byte, or all of them.
Cuts(all) == {n \in 1..all : n <= 2 + 8 + 4 + 1 \/ n >= all - 1}

\* More bytes of the frame arrive in the cursor's buffer.
Arrive(p) ==
    /\ conn[p].formatted
    /\ \E n \in Cuts(Len(sock[p].rest)) :
          /\ sock' = [sock EXCEPT ![p].data = @ \o Head0(sock[p].rest, n),
                                  ![p].rest = Tail0(@, n)]
          /\ Split(n, Len(sock[p].rest), FALSE)
    /\ ret' = [ret EXCEPT ![p] = Pending]
    /\ UNCHANGED <<conn, hist>>

\* Frame::parse(&mut cursor) (frame.rs 249-354)
Parse(p) ==
    /\ conn[p].formatted
    /\ ret[p].kind \in {"Pending", "None"}
    /\ ret' = [ret EXCEPT ![p] = Frame_parse(sock[p].data, sock[p].pos)]
    /\ sock' = [sock EXCEPT ![p].pos = ret'[p].pos]
    /\ UNCHANGED <<conn, hist, env>>

\* frame.remove_mask() (frame.rs 176-182) on the frame parsed
RemoveMask(p) ==
    /\ ret[p].kind = "Frame"
    /\ is_masked(ret[p].frame)
    /\ ret' = [ret EXCEPT ![p].frame = remove_mask(@)]
    /\ UNCHANGED <<conn, sock, hist, env>>

NextCodec ==
    \/ \E p \in DOMAIN conn : Format(p)
    \/ \E p \in DOMAIN conn : Arrive(p)
    \/ \E p \in DOMAIN conn : Parse(p)
    \/ \E p \in DOMAIN conn : RemoveMask(p)

SpecCodec == InitCodec /\ [][NextCodec]_vars

\* The length of the encoding of f as the claim counts it.
EncodedLength(f) ==
    2 + (IF Len(f.payload) <= 125 THEN 0
         ELSE IF Len(f.payload) <= 65535 THEN 2 ELSE 8)
      + (IF f.mask = <<>> THEN 0 ELSE 4) + Len(f.payload)

\* Frame::parse has been called on all the bytes of the frame.
ParsedWhole(p) ==
    /\ conn[p].formatted
    /\ sock[p].rest = <<>>
    /\ ret[p].kind # "Pending"

\* C19: Frame::parse on the bytes Frame::format wrote yields a frame with
\* the same FIN, RSV1-3 and opcode, and the same payload if the frame has
\* no mask; the cursor advances by the encoded length, which is f.len();
\* with a mask, the frame parsed has the key, and after remove_mask the
\* original payload.
C19_FrameRoundTrip ==
    \A p \in DOMAIN conn :
       LET f == env.incoming[1]
           g == ret[p].frame
       IN  ParsedWhole(p) =>
              /\ ret[p].kind = "Frame"
              /\ g.finished = f.finished /\ g.opcode = f.opcode
              /\ g.rsv1 = f.rsv1 /\ g.rsv2 = f.rsv2 /\ g.rsv3 = f.rsv3
              /\ sock[p].pos = env.lead + EncodedLength(f)
              /\ EncodedLength(f) = Frame_len(f)
              /\ IF is_masked(g) THEN g.mask = f.mask
                 ELSE g.payload = f.payload

\* A masked frame of 126 bytes has been parsed and unmasked.
C19_Witness ==
    \E p \in DOMAIN conn :
       /\ ParsedWhole(p)
       /\ Len(env.incoming[1].payload) = 126
       /\ is_masked(env.incoming[1])
       /\ ~is_masked(ret[p].frame)

\* Frame::parse has been called on a part of the bytes of the frame.
ParsedPart(p) ==
    /\ conn[p].formatted
    /\ sock[p].rest # <<>>
    /\ ret[p].kind # "Pending"

\* C20: on a prefix of the encoding shorter than the whole, Frame::parse
\* returns Ok(None) and leaves the cursor where it was; called again once
\* the rest has arrived, it yields the frame, parsed from its first byte.
C20_PartialDecode ==
    \A p \in DOMAIN conn :
       /\ ParsedPart(p) => (ret[p].kind = "None" /\ sock[p].pos = env.lead)
       /\ ParsedWhole(p) =>
             /\ ret[p].kind = "Frame"
             /\ sock[p].pos = Len(sock[p].data)
             /\ remove_mask(ret[p].frame).payload = env.incoming[1].payload

\* Frame::parse has returned Ok(None) for a frame of 127 bytes cut inside
\* its mask key.
C20_Witness ==
    \E p \in DOMAIN conn :
       /\ ParsedPart(p)
       /\ ret[p].kind = "None"
       /\ Len(env.incoming[1].payload) = 127
       /\ is_masked(env.incoming[1])
       /\ Len(sock[p].data) - env.lead = 2 + 2 + 3

---------------------------------------------------------------------------
(* SpecOrder: a client or a server in state Open receives one or two       *)
(* frames of any opcode, final or not, in any order.                       *)

\* The frames of SpecOrder: every opcode, final or not, with one byte,
\* and the Close frame without a payload.
OrderFrames ==
    {[Frame_default EXCEPT !.opcode = op, !.finished = fin,
                           !.payload = <<104>>] :
        op \in OpCodes, fin \in BOOLEAN}
       \cup {[Frame_default EXCEPT !.opcode = "Close"]}

InitOrder ==
    \E p \in {"client", "server"}, f \in OrderFrames,
       g \in OrderFrames, two \in BOOLEAN :
       LET fs == IF two THEN <<f, g>> ELSE <<f>>
       IN  /\ Alone(p, Sending(PlainPeer(p), PeerBytes(p, fs)))
           /\ env = [calls |-> 0, splits |-> 0, rfree |-> TRUE,
                     wfree |-> FALSE, keys |-> {<<1, 2, 3, 4>>},
                     outgoing |-> {}, incoming |-> fs]

NextOrder ==
    \/ \E p \in DOMAIN conn : Read(p)
    \/ \E p \in DOMAIN conn : Write(p)
    \/ \E p \in DOMAIN conn : HandleError(p)

SpecOrder == InitOrder /\ [][NextOrder]_vars

\* Frame f breaks the order of frames when the fragments queue is frags:
\* a whole message inside a fragmented one, a last fragment of nothing, a
\* control frame that is not final.
OutOfOrder(f, frags) ==
    \/ f.finished /\ f.opcode \in {"Text", "Binary"} /\ frags # <<>>
    \/ f.finished /\ f.opcode = "Continue" /\ frags = <<>>
    \/ ~f.finished /\ f.opcode \in {"Close", "Ping", "Pong"}

\* The frames Frame::parse yields in the step.
NewParsed(p) == Added(hist[p].parsed, hist'[p].parsed)

\* C21: when the first frame a read() parses is a final Text or Binary
\* frame while fragments is non-empty, a final Continue while fragments is
\* empty, or a Close, Ping or Pong with FIN=0, read_frames stops at that
\* frame with a Protocol error and on_message is not invoked.
C21_OutOfOrderRefused ==
    [][\A p \in DOMAIN conn :
          (NewParsed(p) # <<>>
             /\ OutOfOrder(NewParsed(p)[1].f, conn[p].fragments))
          => /\ ret'[p].kind = "Protocol"
             /\ Len(NewParsed(p)) = 1
             /\ \A i \in DOMAIN NewCalls(p) :
                   NewCalls(p)[i].cb # "on_message"]_vars

\* A final Binary frame has been refused behind the first fragment of a
\* text.
C21_Witness ==
    \E p \in DOMAIN conn :
       /\ Len(hist[p].parsed) = 2
       /\ ~hist[p].parsed[1].f.finished
       /\ hist[p].parsed[1].f.opcode = "Text"
       /\ hist[p].parsed[2].f.finished
       /\ hist[p].parsed[2].f.opcode = "Binary"
       /\ hist[p].parsed[2].st = "Open"
       /\ ret[p].kind = "Protocol"
       /\ CallsOf(p, "on_message") = {}

---------------------------------------------------------------------------
(* SpecEarly: a client that has written its request, with a fixed or a     *)
(* growing in_buffer, against a server that sends its response and, right  *)
(* behind it, one or two messages; each read() takes any part of what is   *)
(* left.                                                                   *)

InitEarly ==
    \E igrow \in BOOLEAN, k \in 1..MaxFragSize, more \in BOOLEAN :
       LET msg == [op |-> "Text", data |-> PayloadOf(MaxPayload)]
           script == Hello("client")
                        \o PeerBytes("client", PeerStream(msg, k, FALSE, more))
       IN  /\ Alone("client",
                    Whole(Machine0("client",
                                   Settings(1, FALSE, FALSE, igrow, TRUE,
                                            FALSE),
                                   script),
                          "client", FALSE))
           /\ env = [calls |-> 0, splits |-> 0, rfree |-> TRUE,
                     wfree |-> FALSE, keys |-> {<<1, 2, 3, 4>>},
                     outgoing |-> {},
                     incoming |-> <<msg>> \o
                                  (IF more THEN <<Second>> ELSE <<>>)]

NextEarly ==
    \/ \E p \in DOMAIN conn : Read(p)
    \/ \E p \in DOMAIN conn : Write(p)
    \/ \E p \in DOMAIN conn : HandleError(p)

SpecEarly == InitEarly /\ [][NextEarly]_vars

\* The bytes the frames in fs take on the wire.
RECURSIVE WireLength(_)
WireLength(fs) ==
    IF fs = <<>> THEN 0 ELSE Frame_len(Head(fs).f) + WireLength(Tail(fs))

\* The bytes of the stream p has not parsed: the unread part of in_buffer
\* and what the socket still holds.
Unparsed(p) ==
    Tail0(conn[p].in_buffer.data, conn[p].in_buffer.pos) \o sock[p].rx

\* C24: once a client has read a 101 response (on_open has been invoked),
\* response_buf ended right after the terminator and every byte behind it
\* is in in_buffer or still in the socket, in order; the frames that came
\* with the response are parsed in the same read(), so the messages the
\* server sent behind its response are delivered once and in order,
\* wherever the reads split the stream, all of them once the socket is
\* drained and no read() has failed.
C24_EarlyFramesDelivered ==
    \A p \in DOMAIN conn :
       CallsOf(p, "on_open") # {} =>
          /\ hist[p].hs.res = Hello(p)
          /\ Unparsed(p)
                = Tail0(sock[p].script,
                        Len(Hello(p)) + WireLength(hist[p].parsed))
          /\ IsPrefix(Delivered(p), env.incoming)
          /\ (/\ sock[p].rx = <<>>
              /\ ret[p].kind = "Ok"
              /\ CallsOf(p, "on_error") = {}) => Delivered(p) = env.incoming

\* Both messages have been delivered from bytes that came with the
\* response: an in_buffer that may not grow holds more than its capacity.
C24_Witness ==
    \E p \in DOMAIN conn :
       /\ ~conn[p].settings.in_buffer_grow
       /\ Len(conn[p].in_buffer.data) > conn[p].settings.in_buffer_capacity
       /\ Len(env.incoming) = 2
       /\ Delivered(p) = env.incoming

---------------------------------------------------------------------------
(* SpecEcho: a client and a server joined by a wire.  The client connects  *)
(* and sends Text "hi", the server's handler sends back the message it is  *)
(* given, and once the client has the echo either side sends               *)
(* Close(Normal).  The reactor calls read() on a connection that wants     *)
(* readable when bytes have arrived and write() on one that wants          *)
(* writable; a socket gives or takes at least one byte, and up to          *)
(* MaxSplits times less than everything.                                   *)

Hi == [op |-> "Text", data |-> <<104, 105>>]
Other(p) == IF p = "client" THEN "server" ELSE "client"

InitEcho ==
    \E frag \in 1..MaxFragSize, kstrict \in BOOLEAN :
       /\ conn = [p \in {"client", "server"} |->
                     NewConnection(p, Settings(frag, FALSE, kstrict, TRUE,
                                               TRUE, FALSE), <<>>)]
       /\ sock = [p \in {"client", "server"} |-> NewSocket(<<>>)]
       /\ hist = [p \in {"client", "server"} |-> NoHistory]
       /\ ret = [p \in {"client", "server"} |-> Ok]
       /\ env = [calls |-> 1, splits |-> MaxSplits, rfree |-> FALSE,
                 wfree |-> FALSE, keys |-> {<<1, 2, 3, 4>>},
                 outgoing |-> {Hi},
                 incoming |-> <<>>]

\* The reactor finds p readable: read() takes some of what has arrived.
EchoRead(p) ==
    /\ Ready(p)
    /\ Readable \in conn[p].events
    /\ sock[p].rx # <<>>
    /\ \E n \in 1..Len(sock[p].rx), rng \in Rngs(p) :
          /\ Commit(p, read(Mach(p), n, 101, rng, NoWrite))
          /\ Split(n, Len(sock[p].rx), env.rfree)

\* The reactor finds p writable: write() hands the socket what is unsent
\* and the socket takes some of it.
EchoWrite(p) ==
    /\ Ready(p)
    /\ Writable \in conn[p].events
    /\ \E n \in Min(1, Unsent(p))..Unsent(p) :
          /\ Commit(p, write(Mach(p), [n |-> n, zero |-> FALSE], 0, 101,
                             <<NoKey>>))
          /\ Split(n, Unsent(p), env.wfree)

\* The wire carries what p's socket has taken to the other end.
Deliver(p) ==
    /\ p \in DOMAIN conn
    /\ sock[p].tx # <<>>
    /\ sock' = [sock EXCEPT ![p].tx = <<>>,
                            ![Other(p)].rx = @ \o sock[p].tx]
    /\ UNCHANGED <<conn, hist, ret, env>>

\* The handlers: the client's sends "hi" once it is open, the server's
\* sends back the message on_message gave it.
EchoSend(p) ==
    /\ Ready(p)
    /\ hist[p].api = NoCall
    /\ CallsOf(p, IF p = "client" THEN "on_open" ELSE "on_message") # {}
    /\ \E msg \in env.outgoing, rng \in Rngs(p) :
          LET m == send_message(Mach(p), msg, rng)
          IN  /\ p = "server" =>
                    \E i \in CallsOf(p, "on_message") :
                       /\ hist[p].calls[i].op = msg.op
                       /\ hist[p].calls[i].data = msg.data
              /\ Commit(p, [m EXCEPT !.h.api = [msg |-> msg,
                                                from |-> Len(hist[p].frames),
                                                to |-> Len(m.h.frames),
                                                ok |-> IsOk(m)]])
    /\ UNCHANGED env

\* The client has the echo.
Echoed ==
    \E i \in CallsOf("client", "on_message") :
       /\ hist["client"].calls[i].op = Hi.op
       /\ hist["client"].calls[i].data = Hi.data

\* Either side sends Close(Normal), once.
EchoClose(p) == Echoed /\ SendClose(p)

\* The other end has terminated and the wire is empty: the reactor finds p
\* readable and read() reads no byte.
Eof(p) ==
    /\ Ready(p)
    /\ Readable \in conn[p].events
    /\ conn[Other(p)].events = {}
    /\ sock[Other(p)].tx = <<>> /\ sock[p].rx = <<>>
    /\ \E rng \in Rngs(p) : Commit(p, read(Mach(p), 0, 101, rng, NoWrite))
    /\ UNCHANGED env

NextEcho ==
    \/ \E p \in DOMAIN conn : EchoRead(p)
    \/ \E p \in DOMAIN conn : EchoWrite(p)
    \/ \E p \in DOMAIN conn : Deliver(p)
    \/ \E p \in DOMAIN conn : EchoSend(p)
    \/ \E p \in DOMAIN conn : EchoClose(p)
    \/ \E p \in DOMAIN conn : Eof(p)

\* The reactor keeps dispatching readiness, the wire keeps delivering, the
\* handlers answer and one side closes.
FairEcho ==
    /\ \A p \in {"client", "server"} :
          /\ WF_vars(EchoRead(p))
          /\ WF_vars(EchoWrite(p))
          /\ WF_vars(Deliver(p))
          /\ WF_vars(EchoSend(p))
    /\ WF_vars(\E p \in {"client", "server"} : EchoClose(p))

SpecEcho == InitEcho /\ [][NextEcho]_vars /\ FairEcho

\* One side has sent Close(Normal) after the echo.
CloseSent == env.calls = 0
Terminated(p) == conn[p].events = {}

\* The scenario has run to its end: a Close has been sent, the wire is
\* empty and no connection has bytes to read or to send.
Settled ==
    /\ CloseSent
    /\ \A p \in DOMAIN conn :
          /\ sock[p].rx = <<>> /\ sock[p].tx = <<>>
          /\ Unsent(p) = 0
          /\ ret[p].kind = "Ok"

\* No step changes the state once the scenario is settled, so that what
\* holds eventually is what holds in the settled states.
SettledIsFinal == [][~Settled]_vars

\* The server terminates by the end of the scenario; the client has then
\* answered or sent the Close, is in state Closing and still wants
\* readable; no call returns an error on the way.
EchoServerTerminates == Settled => Terminated("server")
EchoClientStays ==
    /\ \A p \in DOMAIN conn : ret[p].kind = "Ok"
    /\ ~Terminated("client")
    /\ Settled => /\ conn["client"].state = "Closing"
                  /\ conn["client"].events = {Hup, Readable}

\* C7: in the echo scenario, once either side has sent Close(Normal) and
\* the reactor has dispatched all there is to read and to write, the
\* client connection and the server connection both have events == empty.
C7_EchoBothTerminate ==
    Settled => (Terminated("client") /\ Terminated("server"))

---------------------------------------------------------------------------
(* The life cycle of a connection, checked under Spec.                     *)

Rank(st) == CASE st = "Connecting" -> 0 [] st = "Open" -> 1 [] OTHER -> 2

\* The handshake p ended with was complete and accepted: both messages
\* parse, the status is 101, and a client with key_strict got the Accept
\* key of its own request.
HandshakeSucceeded(p) ==
    LET request == Request_parse(hist[p].hs.req)
        response == Response_parse(hist[p].hs.res)
    IN  /\ request.kind = "Some"
        /\ response.kind = "Some"
        /\ response.a = 101
        /\ (p = "client" /\ conn[p].settings.key_strict)
              => hashed_key(request.b) = response.b

\* C1: over every operation the state only moves forward, Connecting, Open,
\* Closing, never from Connecting straight to Closing and never backward.
C1_StateOnlyMovesForward ==
    [][\A p \in DOMAIN conn :
          /\ Rank(conn'[p].state) >= Rank(conn[p].state)
          /\ ~(conn[p].state = "Connecting" /\ conn'[p].state = "Closing")]_vars

\* C5: on_open is called at most once, only when the handshake completed
\* with status 101, and every on_message and on_close comes after it.
C5_OnOpenOnceAndFirst ==
    \A p \in DOMAIN conn :
       /\ Cardinality(CallsOf(p, "on_open")) <= 1
       /\ CallsOf(p, "on_open") # {} => HandshakeSucceeded(p)
       /\ \A i \in CallsOf(p, "on_message") \cup CallsOf(p, "on_close") :
             \E j \in CallsOf(p, "on_open") : j < i

\* C6: the state is Open, or Closing after Open, only when the handshake
\* succeeded.
C6_OpenOnlyAfterHandshake ==
    \A p \in DOMAIN conn :
       (\E i \in DOMAIN hist[p].path : hist[p].path[i] = "Open")
          => HandshakeSucceeded(p)

\* The handshake message p writes: a server its response, a client its
\* request.
HandshakeOut(p) == IF p = "server" THEN conn[p].res ELSE conn[p].req

\* C22: once the socket has taken the whole handshake message, over any
\* number of write() calls, the endpoint has advanced: a server has left
\* Connecting, a client wants readable and no longer writable.  No
\* connection stays in Connecting with its message fully written.
C22_HandshakeWriteCompletes ==
    \A p \in DOMAIN conn :
       (/\ conn[p].state = "Connecting"
        /\ CallsOf(p, "on_error") = {}
        /\ ret[p].kind = "Ok"
        /\ HandshakeOut(p).data # <<>>
        /\ HandshakeOut(p).pos = Len(HandshakeOut(p).data))
          => /\ p = "client"
             /\ Readable \in conn[p].events
             /\ Writable \notin conn[p].events

\* C23: a read() or write() of a client in Connecting after which
\* response_buf holds no terminator (the socket gave nothing, or a part of
\* the response) leaves the state Connecting, returns Ok and invokes no
\* callback of the handler.
C23_ClientWaitsForResponse ==
    [][\A p \in DOMAIN conn :
          (/\ p = "client"
           /\ conn[p].state = "Connecting"
           /\ ret[p].kind = "Ok"
           /\ env'.calls = env.calls
           /\ ~HasTerminator(conn'[p].res.data))
             => /\ conn'[p].state = "Connecting"
                /\ ret'[p].kind = "Ok"
                /\ hist'[p].calls = hist[p].calls]_vars


\* The callbacks named cb among the calls cs.
Named(cs, cb) == {i \in DOMAIN cs : cs[i].cb = cb}

\* C25: when a read() of a client gives the handshake a complete response,
\* a status of 301 or 302 makes read() return Ok with on_response invoked
\* and on_open not invoked, and a status other than 101, 301 and 302 makes
\* read() return a Protocol error with neither of them invoked.
C25_ResponseStatus ==
    [][\A p \in DOMAIN conn :
          (/\ p = "client"
           /\ conn[p].state = "Connecting"
           /\ conn'[p].state # "Connecting"
           /\ Response_parse(hist'[p].hs.res).kind = "Some")
          => LET status == Response_parse(hist'[p].hs.res).a
             IN  /\ status \in {301, 302} =>
                       /\ ret'[p].kind = "Ok"
                       /\ Named(NewCalls(p), "on_response") # {}
                       /\ Named(NewCalls(p), "on_open") = {}
                 /\ status \notin {101, 301, 302} =>
                       /\ ret'[p].kind = "Protocol"
                       /\ NewCalls(p) = <<>>]_vars

\* C26: a write() of a server in Closing that leaves out_buffer with
\* unsent bytes keeps writable among the desired events, and one that
\* leaves out_buffer empty clears events.
C26_ClosingServerWritesAll ==
    [][\A p \in DOMAIN conn :
          (/\ p = "server"
           /\ conn[p].state = "Closing"
           /\ Writable \in conn[p].events
           /\ ~sock[p].negotiating
           /\ ret[p].kind = "Ok"
           /\ env'.calls = env.calls
           /\ sock'[p].rx = sock[p].rx
           /\ ret'[p].kind = "Ok")
          => IF conn'[p].out_buffer.pos < Len(conn'[p].out_buffer.data)
             THEN Writable \in conn'[p].events
             ELSE conn'[p].events = {}]_vars

\* The step of p ends with check_events outside Connecting: a send method
\* has put a frame in out_buffer, a write() outside Connecting has not
\* ended the connection, or the handshake has completed with on_open.
Enqueues(p) == Len(hist'[p].frames) > Len(hist[p].frames)
WritesOn(p) ==
    /\ conn[p].state # "Connecting"
    /\ Writable \in conn[p].events
    /\ ret[p].kind = "Ok"
    /\ env'.calls = env.calls
    /\ sock'[p].rx = sock[p].rx
    /\ conn'[p].events # {}
Opens(p) ==
    /\ conn[p].state = "Connecting"
    /\ Named(NewCalls(p), "on_open") # {}
EventsAsPending(p) ==
    /\ Readable \in conn'[p].events
    /\ Writable \in conn'[p].events
          <=> conn'[p].out_buffer.pos < Len(conn'[p].out_buffer.data)

\* C27: after every operation that ends with check_events outside
\* Connecting and returns Ok, readable is desired, and writable is desired
\* exactly when out_buffer has unsent bytes.
C27_DesiredEvents ==
    [][\A p \in DOMAIN conn :
          (/\ conn'[p].state # "Connecting"
           /\ ret'[p].kind = "Ok"
           /\ Enqueues(p) \/ WritesOn(p) \/ Opens(p))
          => EventsAsPending(p)]_vars

---------------------------------------------------------------------------
(* SpecTls: a client or a server over a TLS stream, from construction or   *)
(* in state Open, that receives a Ping and sends one message.              *)
(* Any socket call that returns None may have needed the opposite          *)
(* readiness; the stream then reports is_negotiating().                    *)

\* The stream after a call of read() or write() whose last socket call
\* needed the opposite readiness (neg) or did not.
NeedsOther(m, neg) == [m EXCEPT !.s.negotiating = neg]

\* read() or write() on a TLS stream, `reading` being the arm that runs:
\* the socket gives all it has or nothing (n bytes) or takes w.n bytes,
\* and a call of it that returned None leaves the stream negotiating if
\* neg.
TlsCall(p, reading) ==
    \E n \in {0, Arrived(p)}, rng \in Rngs(p), w \in Writes(Unsent(p)),
       neg \in BOOLEAN,
       status \in (IF p = "server" /\ conn[p].state = "Connecting"
                   THEN HandlerStatus ELSE {101}) :
       /\ reading => w = NoWrite /\ (neg => n = 0)
       /\ ~reading =>
             /\ n = 0
             /\ neg => /\ ~w.zero
                       /\ \/ w.n = 0
                          \/ /\ conn[p].state # "Connecting"
                             /\ w.n < Unsent(p)
       /\ conn[p].state = "Connecting" => (w.zero => w.n = 0)
       /\ Commit(p, ready(NeedsOther(Mach(p), neg), reading, n, status,
                          rng, w))
       /\ UNCHANGED env

\* Connection::read (connection.rs 513-536) on a TLS stream.
ReadTls(p) ==
    /\ Ready(p)
    /\ Readable \in conn[p].events
    /\ TlsCall(p, ~sock[p].negotiating)

\* Connection::write (connection.rs 723-759) on a TLS stream.
WriteTls(p) ==
    /\ Ready(p)
    /\ Writable \in conn[p].events
    /\ TlsCall(p, sock[p].negotiating)

Tls == Settings(1, FALSE, FALSE, TRUE, TRUE, TRUE)

InitTls ==
    \E p \in {"client", "server"}, open \in BOOLEAN :
       LET frames == PeerBytes(p, <<Frame_ping(<<104>>)>>)
       IN  /\ Alone(p, IF open
                       THEN Sending(Established(p, Tls), frames)
                       ELSE Machine0(p, Tls, Hello(p) \o frames))
           /\ env = [calls |-> 1, splits |-> 0, rfree |-> TRUE,
                     wfree |-> TRUE, keys |-> {<<1, 2, 3, 4>>},
                     outgoing |-> {[op |-> "Text", data |-> <<104>>]},
                     incoming |-> <<>>]

NextTls ==
    \/ \E p \in DOMAIN conn : ReadTls(p)
    \/ \E p \in DOMAIN conn : WriteTls(p)
    \/ \E p \in DOMAIN conn : SendMessage(p)
    \/ \E p \in DOMAIN conn : HandleError(p)

SpecTls == InitTls /\ [][NextTls]_vars

\* The step is a call of read() or of write().
TlsStep(p) == ret[p].kind = "Ok" /\ env'.calls = env.calls

\* Of readable and writable, p desires e and not the other one.
OnlyDesired(p, e) ==
    conn[p].events \cap {Readable, Writable} = {e}

\* After the step the stream is negotiating, the call has returned Ok, and
\* the interest has moved from `from` to `to`.
Moved(p, from, to) ==
    (sock'[p].negotiating /\ ret'[p].kind = "Ok")
       => (from \notin conn'[p].events /\ to \in conn'[p].events)

\* C28: read() on a negotiating stream clears the flag and reads nothing:
\* it does what write() does, once; write() on a negotiating stream writes
\* nothing and does what read() does.  A successful call that leaves the
\* stream negotiating moves the interest away from the arm that ran:
\* from readable to writable after the arm of read(), from writable to
\* readable after the arm of write().  The bytes written are always a
\* prefix of the bytes enqueued, and outside Connecting a call on a
\* negotiating stream, or one that leaves it negotiating, keeps a call
\* desired that will write the unsent bytes: write(), or read() on a
\* negotiating stream.
C28_NegotiationInverts ==
    [][\A p \in DOMAIN conn :
          /\ (TlsStep(p) /\ sock[p].negotiating /\ OnlyDesired(p, Readable))
             => /\ sock'[p].rx = sock[p].rx
                /\ hist'[p].parsed = hist[p].parsed
                /\ Moved(p, Writable, Readable)
          /\ (TlsStep(p) /\ sock[p].negotiating /\ OnlyDesired(p, Writable))
             => /\ sock'[p].tx = sock[p].tx
                /\ hist'[p].sent = hist[p].sent
                /\ Moved(p, Readable, Writable)
          /\ (TlsStep(p) /\ ~sock[p].negotiating /\ OnlyDesired(p, Readable))
             => /\ sock'[p].tx = sock[p].tx
                /\ Moved(p, Readable, Writable)
          /\ (TlsStep(p) /\ ~sock[p].negotiating /\ OnlyDesired(p, Writable))
             => /\ sock'[p].rx = sock[p].rx
                /\ Moved(p, Writable, Readable)
          /\ IsPrefix(hist'[p].sent, hist'[p].enq)
          /\ (/\ TlsStep(p)
              /\ sock[p].negotiating \/ sock'[p].negotiating
              /\ conn[p].state # "Connecting"
              /\ ret'[p].kind = "Ok"
              /\ conn'[p].events # {}
              /\ conn'[p].out_buffer.pos < Len(conn'[p].out_buffer.data))
             => \/ Writable \in conn'[p].events
                \/ sock'[p].negotiating /\ Readable \in conn'[p].events]_vars

\* A write() has put a part of the enqueued frames on a stream that then
\* needed to read: the stream is negotiating, only readable is desired and
\* the rest of the frames waits for read() to write it.
C28_Witness ==
    \E p \in DOMAIN conn :
       /\ sock[p].negotiating
       /\ conn[p].state = "Open"
       /\ conn[p].events \cap {Readable, Writable} = {Readable}
       /\ hist[p].sent # <<>>
       /\ Len(hist[p].sent) < Len(hist[p].enq)

---------------------------------------------------------------------------
(* Pings among the fragments of a message (SpecRecv).                      *)

\* The Pongs that answer the Pings among the frames es, parsed in Open.
PongsFor(es) ==
    LET pings == SelectSeq(es, LAMBDA e : e.f.opcode = "Ping" /\ e.st = "Open")
    IN  [i \in DOMAIN pings |->
            [Frame_default EXCEPT !.opcode = "Pong",
                                  !.payload = remove_mask(pings[i].f).payload]]

\* C29: a read() that parses frames enqueues, for each Ping parsed in
\* Open, one Pong with the payload of the Ping, and nothing else; a read()
\* that parses a Ping only leaves the fragments as they were and gives no
\* message, the Pong being in out_buffer before the next frame is parsed;
\* and once every byte has been read without an error the messages have
\* all been delivered as sent.
C29_PingAnswered ==
    [][\A p \in DOMAIN conn :
          NewParsed(p) # <<>> =>
             /\ Added(hist[p].frames, hist'[p].frames)
                   = PongsFor(NewParsed(p))
             /\ (/\ Len(NewParsed(p)) = 1
                 /\ NewParsed(p)[1].f.opcode = "Ping"
                 /\ NewParsed(p)[1].st = "Open")
                => /\ conn'[p].fragments = conn[p].fragments
                   /\ Named(NewCalls(p), "on_message") = {}
                   /\ Len(hist'[p].enq) > Len(hist[p].enq)
             /\ (/\ sock'[p].rx = <<>>
                 /\ ret'[p].kind = "Ok"
                 /\ Named(hist'[p].calls, "on_error") = {})
                => Delivered(p)' = env.incoming]_vars

\* The last frame parsed is a Ping that came after the first fragment of
\* a message: its Pong is enqueued, the fragment is still queued and the
\* message has not been given to the handler.
C29_Witness ==
    \E p \in DOMAIN conn :
       /\ Len(hist[p].parsed) = 2
       /\ hist[p].parsed[2].f.opcode = "Ping"
       /\ Len(hist[p].frames) = 1
       /\ hist[p].frames[1].opcode = "Pong"
       /\ hist[p].frames[1].payload = <<104>>
       /\ Len(conn[p].fragments) = 1
       /\ Delivered(p) = <<>>
       /\ conn[p].state = "Open"

---------------------------------------------------------------------------
(* A Close frame without a close code (SpecOrder).                         *)

\* The read() of the step parsed one frame, a final Close frame with less
\* than two bytes of payload, in state Open.
ShortClose(p) ==
    /\ Len(NewParsed(p)) = 1
    /\ NewParsed(p)[1].f.opcode = "Close"
    /\ NewParsed(p)[1].f.finished
    /\ Len(NewParsed(p)[1].f.payload) < 2
    /\ NewParsed(p)[1].st = "Open"

\* What such a read() does but for the reason given to on_close: on_close
\* alone is invoked, with code Status and the reason `text`; one Close
\* frame with an empty payload is enqueued; read() returns Ok and the state
\* is Closing.
ShortCloseAnswered(p, text) ==
    /\ Len(NewCalls(p)) = 1
    /\ NewCalls(p)[1].cb = "on_close"
    /\ NewCalls(p)[1].op = "Status"
    /\ NewCalls(p)[1].data = text
    /\ Len(hist'[p].frames) = Len(hist[p].frames) + 1
    /\ hist'[p].frames[Len(hist'[p].frames)].opcode = "Close"
    /\ hist'[p].frames[Len(hist'[p].frames)].payload = <<>>
    /\ ret'[p].kind = "Ok"
    /\ conn'[p].state = "Closing"

\* C30 as stated: the reason given to on_close is the empty text.
C30_AsStated ==
    [][\A p \in DOMAIN conn :
          ShortClose(p) => ShortCloseAnswered(p, <<>>)]_vars

\* C30: a Close frame with less than two bytes of payload received in Open
\* is not an error: on_close is invoked with code Status and the text
\* "Unable to read close code. Sending empty close frame.", a Close frame
\* with an empty payload is enqueued, read() returns Ok and the state
\* becomes Closing.
C30_ShortCloseAnswered ==
    [][\A p \in DOMAIN conn :
          ShortClose(p) => ShortCloseAnswered(p, UnableToReadCloseCode)]_vars

\* A Close frame of one byte was parsed in Open and answered with an empty
\* Close frame.
C30_Witness ==
    \E p \in DOMAIN conn :
       /\ Len(hist[p].parsed) = 1
       /\ hist[p].parsed[1].f.opcode = "Close"
       /\ hist[p].parsed[1].f.finished
       /\ Len(hist[p].parsed[1].f.payload) = 1
       /\ CallsOf(p, "on_close") # {}
       /\ Len(hist[p].frames) = 1
       /\ hist[p].frames[1].payload = <<>>
       /\ conn[p].state = "Closing"

---------------------------------------------------------------------------
(* The queue of fragments (SpecOrder).                                     *)

\* C31: a non-empty fragments queue starts with a non-final Text or Binary
\* frame and goes on with non-final Continue frames only.
C31_FragmentsWellFormed ==
    \A p \in DOMAIN conn :
       \A i \in DOMAIN conn[p].fragments :
          /\ ~conn[p].fragments[i].finished
          /\ i = 1 => conn[p].fragments[i].opcode \in {"Text", "Binary"}
          /\ i > 1 => conn[p].fragments[i].opcode = "Continue"

\* C32: among the frames put in out_buffer no Text, Binary or Continue
\* frame comes after a Close frame.
C32_NoDataAfterClose ==
    \A p \in DOMAIN conn :
       \A i, j \in DOMAIN hist[p].frames :
          (i < j /\ hist[p].frames[i].opcode = "Close")
             => hist[p].frames[j].opcode \notin {"Text", "Binary", "Continue"}

---------------------------------------------------------------------------
(* SpecPing: a client or a server in state Open sends pings with data of   *)
(* the caller, short or long; each write() hands all that is unsent to    *)
(* the socket, or nothing.                                                 *)

\* The lengths of the data callers give to send_ping.
PingLengths == {0, 1, 124, 125, 126}

InitPing ==
    \E p \in {"client", "server"} :
       /\ Alone(p, PlainPeer(p))
       /\ env = [calls |-> 2, splits |-> 0, rfree |-> FALSE,
                 wfree |-> FALSE, keys |-> {<<1, 2, 3, 4>>},
                 outgoing |-> {[op |-> "Ping", data |-> PayloadOf(n)] :
                                  n \in PingLengths},
                 incoming |-> <<>>]

\* send_ping(data) called with data of the caller.
SendPingOf(p) ==
    /\ Ready(p) /\ env.calls > 0
    /\ \E msg \in env.outgoing, rng \in Rngs(p) :
          Commit(p, Noted(p, send_ping(Mach(p), msg.data, rng[1]),
                          "Ping", msg.data))
    /\ Spend

NextPing ==
    \/ \E p \in DOMAIN conn : SendPingOf(p)
    \/ \E p \in DOMAIN conn : Write(p)

SpecPing == InitPing /\ [][NextPing]_vars

\* C33: every Close, Ping and Pong frame put in out_buffer has FIN set and
\* a payload of at most 125 bytes, and Frame::parse accepts its bytes.
C33_ControlFramesLegal ==
    \A p \in DOMAIN conn :
       \A i \in DOMAIN hist[p].frames :
          LET f == hist[p].frames[i]
          IN  f.opcode \in {"Close", "Ping", "Pong"} =>
                 /\ f.finished
                 /\ Len(f.payload) <= 125
                 /\ Frame_parse(Frame_format(f), 0).kind = "Frame"

---------------------------------------------------------------------------
(* The end of a connection (Spec).                                         *)

\* C34: once events is empty no operation makes it non-empty again.
C34_TerminationAbsorbing ==
    [][\A p \in DOMAIN conn :
          conn[p].events = {} => conn'[p].events = {}]_vars

---------------------------------------------------------------------------
(* SpecReset: a client with no, one or two candidate addresses left, or a  *)
(* server, from construction on; reset() is called up to three times at    *)
(* any moment of the handshake and after it.  env.incoming is the list of  *)
(* addresses given to as_client.                                           *)

InitReset ==
    \E p \in {"client", "server"}, addrs \in {<<>>, <<1>>, <<1, 2>>} :
       /\ Alone(p, [c |-> NewConnection(p, Plain, addrs),
                    s |-> NewSocket(Hello(p)),
                    h |-> NoHistory, r |-> Ok])
       /\ env = [calls |-> 3, splits |-> 1, rfree |-> FALSE,
                 wfree |-> FALSE, keys |-> {<<1, 2, 3, 4>>},
                 outgoing |-> {}, incoming |-> addrs]

NextReset ==
    \/ \E p \in DOMAIN conn : Reset(p)
    \/ \E p \in DOMAIN conn : Read(p)
    \/ \E p \in DOMAIN conn : Write(p)
    \/ \E p \in DOMAIN conn : HandleError(p)

SpecReset == InitReset /\ [][NextReset]_vars

---------------------------------------------------------------------------
(* SpecLength: Frame::parse on the header of a data frame with a 64-bit    *)
(* extended length.  The header, a mask key or none, and zero to two bytes *)
(* of payload arrive in the cursor, whole or cut in two, behind `lead`     *)
(* bytes already read; Frame::parse is called in a build for a 32-bit or a *)
(* 64-bit target.                                                          *)

\* The eight bytes of the lengths 0, 1, 2, 3, 2^16, 2^24, 2^32 - 1, 2^32,
\* 2^32 + 2, 2^63, 2^64 - 14, 2^64 - 10 and 2^64 - 1.
LengthFields ==
    {ToBE(n, 8) : n \in {0, 1, 2, 3, 65536}}
    \cup {<<0, 0, 0, 0, 1, 0, 0, 0>>,
          <<0, 0, 0, 0, 255, 255, 255, 255>>,
          <<0, 0, 0, 1, 0, 0, 0, 0>>,
          <<0, 0, 0, 1, 0, 0, 0, 2>>,
          <<128, 0, 0, 0, 0, 0, 0, 0>>,
          <<255, 255, 255, 255, 255, 255, 255, 242>>,
          <<255, 255, 255, 255, 255, 255, 255, 246>>,
          <<255, 255, 255, 255, 255, 255, 255, 255>>}

InitLength ==
    \E op \in {"Continue", "Text", "Binary"}, field \in LengthFields,
       masked \in BOOLEAN, sent \in 0..2, lead \in 0..1, bits \in {32, 64} :
       /\ conn = [q \in {"codec"} |->
                     [field |-> field, masked |-> masked, formatted |-> TRUE]]
       /\ sock = [q \in {"codec"} |->
                     [data |-> [i \in 1..lead |-> 0], pos |-> lead,
                      rest |-> <<128 + OpCode_into(op),
                                 (IF masked THEN 128 ELSE 0) + 127>>
                               \o field
                               \o (IF masked THEN CodecKey ELSE <<>>)
                               \o Pattern(sent)]]
       /\ hist = [q \in {"codec"} |-> <<>>]
       /\ ret = [q \in {"codec"} |-> Pending]
       /\ env = [calls |-> 0, splits |-> 1, rfree |-> FALSE,
                 wfree |-> FALSE, keys |-> {CodecKey},
                 outgoing |-> {}, incoming |-> <<>>,
                 lead |-> lead, bits |-> bits]

\* Frame::parse(&mut cursor) (frame.rs 249-354) in the build of env.bits;
\* a call that does not return leaves the cursor behind what it read.
ParseUsize(p) ==
    /\ ret[p].kind \in {"Pending", "None"}
    /\ ret' = [ret EXCEPT ![p] =
                  Frame_parse_usize(env.bits, sock[p].data, sock[p].pos)]
    /\ sock' = [sock EXCEPT ![p].pos = ret'[p].pos]
    /\ UNCHANGED <<conn, hist, env>>

NextLength ==
    \/ \E p \in DOMAIN conn : Arrive(p)
    \/ \E p \in DOMAIN conn : ParseUsize(p)

SpecLength == InitLength /\ [][NextLength]_vars

\* The bytes in the cursor behind the header of the frame of SpecLength;
\* negative while the header is not complete.
Remaining(p) ==
    Len(sock[p].data) - env.lead - (10 + (IF conn[p].masked THEN 4 ELSE 0))

\* The length L of the header is more than the bytes behind it.
Exceeds(p) ==
    Huge(conn[p].field) \/ FromBE(conn[p].field) > Remaining(p)

\* C36: when Frame::parse has been called on a complete header of a data
\* frame whose 64-bit length L is more than the bytes that follow the
\* header, it has returned Ok(None) and the cursor is where it was.
C36_LengthCheckSafe ==
    \A p \in DOMAIN conn :
       (ret[p].kind # "Pending" /\ Remaining(p) >= 0 /\ Exceeds(p))
          => (ret[p].kind = "None" /\ sock[p].pos = env.lead)

\* The same for the lengths below 2^32 - 14, whose sum with the length of
\* the header fits both widths of usize.
C36_ShortOfWrap ==
    \A p \in DOMAIN conn :
       (/\ ret[p].kind # "Pending" /\ Remaining(p) >= 0 /\ Exceeds(p)
        /\ \A i \in 1..4 : conn[p].field[i] = 0
        /\ ~Overflows(32, conn[p].field, 14))
          => (ret[p].kind = "None" /\ sock[p].pos = env.lead)

---------------------------------------------------------------------------
(* SpecRsv: Frame::set_rsv3.  A Text frame with any reserved bits, masked  *)
(* or not, has set_rsv3 called on it once or twice; it is then formatted,  *)
(* its bytes arrive in a cursor and Frame::parse reads them back.          *)

InitRsv ==
    \E r1 \in BOOLEAN, r2 \in BOOLEAN, r3 \in BOOLEAN, fin \in BOOLEAN,
       masked \in BOOLEAN, n \in 0..1 :
       LET f == [Frame_default EXCEPT !.opcode = "Text", !.finished = fin,
                                      !.rsv1 = r1, !.rsv2 = r2, !.rsv3 = r3,
                                      !.payload = Pattern(n)]
           frame == IF masked THEN set_mask(f, CodecKey) ELSE f
       IN  /\ conn = [q \in {"codec"} |-> [frame |-> frame,
                                           formatted |-> FALSE]]
           /\ sock = [q \in {"codec"} |->
                         [data |-> <<>>, pos |-> 0, rest |-> <<>>]]
           /\ hist = [q \in {"codec"} |-> <<>>]
           /\ ret = [q \in {"codec"} |-> Pending]
           /\ env = [calls |-> 0, splits |-> 1, rfree |-> FALSE,
                     wfree |-> FALSE, keys |-> {CodecKey},
                     outgoing |-> {}, incoming |-> <<frame>>,
                     lead |-> 0]

\* frame.set_rsv3(has) (frame.rs 137-143); hist keeps the frame as it was
\* and the argument of every call.
SetRsv3(p) ==
    /\ ~conn[p].formatted
    /\ Len(hist[p]) < 2
    /\ \E has \in BOOLEAN :
          /\ conn' = [conn EXCEPT ![p].frame = set_rsv3(@, has)]
          /\ hist' = [hist EXCEPT ![p] =
                        Append(@, [frame |-> conn[p].frame, has |-> has])]
    /\ UNCHANGED <<sock, ret, env>>

NextRsv ==
    \/ \E p \in DOMAIN conn : SetRsv3(p)
    \/ \E p \in DOMAIN conn : Format(p)
    \/ \E p \in DOMAIN conn : Arrive(p)
    \/ \E p \in DOMAIN conn : Parse(p)

SpecRsv == InitRsv /\ [][NextRsv]_vars

\* C37: after frame.set_rsv3(b), has_rsv3() is b and rsv1, rsv2, finished,
\* opcode, mask and payload are what they were before the call; the first
\* header byte Frame::format writes has bit 0x10 set exactly if b, and so
\* has the frame Frame::parse reads back.
C37_SetRsv3 ==
    \A p \in DOMAIN conn :
       hist[p] # <<>> =>
          LET call == hist[p][Len(hist[p])]
              f == conn[p].frame
              bytes == sock[p].data \o sock[p].rest
          IN  /\ has_rsv3(f) = call.has
              /\ f.rsv1 = call.frame.rsv1
              /\ f.rsv2 = call.frame.rsv2
              /\ f.finished = call.frame.finished
              /\ f.opcode = call.frame.opcode
              /\ ~conn[p].formatted => /\ f.mask = call.frame.mask
                                       /\ f.payload = call.frame.payload
              /\ conn[p].formatted => BitSet(bytes[1], 16) = call.has
              /\ ret[p].kind = "Frame" => has_rsv3(ret[p].frame) = call.has

===========================================================================
